---- MODULE Spec2Model ----
(***************************************************************************)
(* code-rescue: the rescue planner, the shared-default fixer and the fix   *)
(* application driver, as state machines.                                  *)
(*                                                                         *)
(* A source text is the sequence of its physical lines, as                 *)
(* str.splitlines(keepends=True) yields them.  A line is a record          *)
(*   [ind  |-> number of leading spaces,                                   *)
(*    toks |-> its tokens, left to right (white space between two tokens   *)
(*             is not recorded),                                           *)
(*    nl   |-> whether the line ends with "\n"].                           *)
(* A default value's source text is a sequence of fragments [ind, toks],   *)
(* one per physical line it spans.                                         *)
(***************************************************************************)
EXTENDS Integers, Sequences, FiniteSets, TLC

VARIABLES
    mode,        \* which entry point this run exercises
    pc,          \* position of the running entry point
    \* the fixer functions run on their own
    source,      \* the text handed to locate/rewrite
    line_start,  \* the declaration line handed to locate/rewrite
    params,      \* result of find_mutable_default_params
    fixed,       \* result of apply_mutable_default_fix ([ok, text])
    again,       \* result of the second find_mutable_default_params
    fix_action,  \* the RescueAction handed to MutableDefaultFixer.apply:
                 \*   [rule_id, line_start, replacement_code, rationale]
    fix_result,  \* the FixResult apply returned
    \* the fix command (cmd_fix and apply_fixes_to_file)
    args,        \* [plan_exists, root_exists, apply, backup, rule]
    plan,        \* the "actions" array of the plan file
    fs,          \* the files under root: path -> [exists, text]
    fs0,         \* fs as it was when the command started
    bak,         \* the .bak files: path -> [exists, text]
    queue,       \* sorted(actions_by_file.items()) still to visit
    file,        \* apply_fixes_to_file's frame: [path, source, modified,
                 \*   actions (sorted, line_start mutable), idx, applied, errors]
    totals,      \* [applied, errors]: total_applied, total_errors
    exit_code,   \* the command's return value, -1 while it runs
    log,         \* what happened to each action handled, in order
    io,          \* the file operations on target and backup files, in order
    \* the planner (create_rescue_plan)
    run_result,  \* [run, findings]: the loaded analysis result
    rescue_plan, \* [actions, summary, ...]: the plan created from it
    \* the plan command (cmd_plan)
    plan_args,   \* [input, output]: "-" or a path
    input,       \* what is behind args.input: [exists, kind, data]
    outcomes,    \* one entry per invocation: [rc, raised, stdout, written]
    numbered     \* [action_num, action]: a position of create_rescue_plan's
                 \*   enumerate and the action created there

fixerVars == <<source, line_start, params, fixed, again, fix_action, fix_result>>
driverVars == <<args, plan, fs, fs0, bak, queue, file, totals, exit_code, log, io>>
planVars == <<run_result, rescue_plan, plan_args, input, outcomes, numbered>>
vars == <<mode, pc, fixerVars, driverVars, planVars>>

----------------------------------------------------------------------------
(* Lines and tokens *)

L(ind, toks) == [ind |-> ind, toks |-> toks, nl |-> TRUE]

NoText == [ok |-> FALSE, text |-> <<>>]
SomeText(t) == [ok |-> TRUE, text |-> t]

TQ == "\"\"\""

Min(a, b) == IF a < b THEN a ELSE b

\* Number of '(' and of ')' characters a token holds ("#(" is a comment
\* that holds a '(').
OpenParens(t) == IF t \in {"(", "#("} THEN 1 ELSE 0
CloseParens(t) == IF t = ")" THEN 1 ELSE 0
\* Whether a token holds a ':' character.
HasColon(t) == t \in {":", "#:"}
\* Whether a token holds a '=' character.
HasEquals(t) == t \in {"=", "=="}
IsComment(t) == t \in {"#", "#:", "#("}

\* Whether a token ends with a ':' character (str.endswith(':')).
EndsColon(t) == t = ":"

CountOpen(toks) ==
    Cardinality({<<i, j>> \in (1..Len(toks)) \X (1..1) : j <= OpenParens(toks[i])})

CountClose(toks) ==
    Cardinality({<<i, j>> \in (1..Len(toks)) \X (1..1) : j <= CloseParens(toks[i])})

\* ':' in line
ColonIn(toks) == \E i \in 1..Len(toks) : HasColon(toks[i])

\* quote in line, and line.count(quote)
QuoteIn(toks) == \E i \in 1..Len(toks) : toks[i] = TQ
QuoteCount(toks) == Cardinality({i \in 1..Len(toks) : toks[i] = TQ})

\* `s` is a prefix of `toks` from position i on.
PrefixAt(toks, i, s) ==
    /\ i + Len(s) - 1 <= Len(toks)
    /\ \A k \in 1..Len(s) : toks[i + k - 1] = s[k]

----------------------------------------------------------------------------
(* get_function_body_indent: the indentation of the function body *)

\* The loop of get_function_body_indent from list index i (1-based) on:
\* the indentation of the first non-empty, non-comment line after the first
\* line whose stripped text ends with ':', or -1 when the loop runs out.
RECURSIVE BodyIndentScan(_, _, _)
BodyIndentScan(lines, i, in_signature) ==
    IF i > Len(lines) THEN -1
    ELSE LET toks == lines[i].toks IN
         IF in_signature
         THEN BodyIndentScan(lines, i + 1,
                  ~(toks # <<>> /\ EndsColon(toks[Len(toks)])))
         ELSE IF toks # <<>> /\ ~IsComment(toks[1])
              THEN lines[i].ind
              ELSE BodyIndentScan(lines, i + 1, FALSE)

get_function_body_indent(lines, func_line) ==
    LET found == BodyIndentScan(lines, func_line, TRUE)
    IN  IF found >= 0 THEN found ELSE lines[func_line].ind + 4

----------------------------------------------------------------------------
(* apply_mutable_default_fix *)

\* The signature scan: the first line from i on at whose end a '(' has been
\* seen, the running parenthesis depth is 0 and the line holds a ':';
\* 0 when the loop ends without a break.
RECURSIVE SigEndScan(_, _, _, _)
SigEndScan(lines, i, paren_depth, found_open) ==
    IF i > Len(lines) THEN 0
    ELSE LET toks  == lines[i].toks
             depth == paren_depth + CountOpen(toks) - CountClose(toks)
             found == found_open \/ CountOpen(toks) > 0
         IN  IF found /\ depth = 0 /\ ColonIn(toks)
             THEN i
             ELSE SigEndScan(lines, i + 1, depth, found)

\* pattern1 = (\bNAME\s*:\s*[^=]+\s*=\s*)DEFAULT matched at the head of toks:
\* 0 when it does not match, else the index of the '=' token.  [^=]+ cannot
\* cross a '=' character, so the '=' is the first token after the ':' that
\* holds one, and it must be exactly "=".
FirstEquals(toks, from) ==
    LET S == {j \in from..Len(toks) : HasEquals(toks[j])}
    IN  IF S = {} THEN 0 ELSE CHOOSE j \in S : \A k \in S : j <= k

Match1(toks, name, rep) ==
    IF Len(toks) >= 4 /\ toks[1] = name /\ toks[2] = ":" /\ Len(rep) = 1
    THEN LET j == FirstEquals(toks, 3)
         IN  IF j >= 4 /\ toks[j] = "=" /\ PrefixAt(toks, j + 1, rep[1].toks)
             THEN j ELSE 0
    ELSE 0

\* pattern2 = (\bNAME\s*=\s*)DEFAULT matched at the head of toks.
Match2(toks, name, rep) ==
    /\ Len(toks) >= 2 /\ toks[1] = name /\ toks[2] = "=" /\ Len(rep) = 1
    /\ PrefixAt(toks, 3, rep[1].toks)

\* re.sub(pattern1, r'\1None', line): every non-overlapping match, leftmost
\* first.
RECURSIVE ReSub1(_, _, _)
ReSub1(toks, name, rep) ==
    LET M == {i \in 1..Len(toks) : Match1(SubSeq(toks, i, Len(toks)), name, rep) > 0} IN
    IF M = {} THEN toks
    ELSE LET i == CHOOSE x \in M : \A y \in M : x <= y
             j == i - 1 + Match1(SubSeq(toks, i, Len(toks)), name, rep)
         IN  SubSeq(toks, 1, j) \o <<"None">>
             \o ReSub1(SubSeq(toks, j + 1 + Len(rep[1].toks), Len(toks)), name, rep)

\* re.sub(pattern2, r'\1None', line)
RECURSIVE ReSub2(_, _, _)
ReSub2(toks, name, rep) ==
    LET M == {i \in 1..Len(toks) : Match2(SubSeq(toks, i, Len(toks)), name, rep)} IN
    IF M = {} THEN toks
    ELSE LET i == CHOOSE x \in M : \A y \in M : x <= y
         IN  SubSeq(toks, 1, i + 1) \o <<"None">>
             \o ReSub2(SubSeq(toks, i + 2 + Len(rep[1].toks), Len(toks)), name, rep)

\* The inner loop over params for one line of the signature span.
RECURSIVE SubstituteParams(_, _)
SubstituteParams(toks, ps) ==
    IF ps = <<>> THEN toks
    ELSE SubstituteParams(
             ReSub2(ReSub1(toks, Head(ps).name, Head(ps).repr),
                    Head(ps).name, Head(ps).repr),
             Tail(ps))

\* The guard lines of one parameter: "if NAME is None:" at the body indent
\* and "NAME = DEFAULT" one level deeper; a default spanning several lines
\* carries its line breaks into the text.
GuardLines(body_indent, p) ==
    <<L(body_indent, <<"if", p.name, "is", "None", ":">>),
      L(body_indent + 4, <<p.name, "=">> \o p.repr[1].toks)>>
    \o [k \in 1..(Len(p.repr) - 1) |-> L(p.repr[k + 1].ind, p.repr[k + 1].toks)]

RECURSIVE InitLines(_, _)
InitLines(body_indent, ps) ==
    IF ps = <<>> THEN <<>>
    ELSE GuardLines(body_indent, Head(ps)) \o InitLines(body_indent, Tail(ps))

\* ''.join(lines) read back as physical lines: a line that does not end
\* with "\n" runs into the one after it.
RECURSIVE JoinLines(_)
JoinLines(lines) ==
    IF Len(lines) <= 1 THEN lines
    ELSE LET a == lines[1]
             b == lines[2]
         IN  IF a.nl THEN <<a>> \o JoinLines(Tail(lines))
             ELSE JoinLines(
                      <<IF a.toks = <<>>
                        THEN [ind |-> a.ind + b.ind, toks |-> b.toks, nl |-> b.nl]
                        ELSE [ind |-> a.ind, toks |-> a.toks \o b.toks, nl |-> b.nl]>>
                      \o SubSeq(lines, 3, Len(lines)))

\* The docstring skip: the list index the guard lines are inserted before.
RECURSIVE ClosingQuoteScan(_, _)
ClosingQuoteScan(lines, i) ==
    IF i > Len(lines) THEN 0
    ELSE IF QuoteIn(lines[i].toks) THEN i ELSE ClosingQuoteScan(lines, i + 1)

BodyStart(lines, sig_end) ==
    LET body_start == sig_end + 1 IN
    IF body_start <= Len(lines)
    THEN LET first_body_line == lines[body_start].toks IN
         IF first_body_line # <<>> /\ first_body_line[1] = TQ
         THEN IF QuoteCount(first_body_line) >= 2 /\ Len(first_body_line) > 2
              THEN body_start + 1
              ELSE LET c == ClosingQuoteScan(lines, body_start + 1)
                   IN  IF c > 0 THEN c + 1 ELSE body_start
         ELSE body_start
    ELSE body_start

\* The last line of the signature; the declaration line itself when the
\* scan ends without a break.
SigEnd(src, line) ==
    LET found == SigEndScan(src, line, 0, FALSE)
    IN  IF found > 0 THEN found ELSE line

InsertLines(lines, body_start, init_lines) ==
    SomeText(JoinLines(SubSeq(lines, 1, body_start - 1)
                       \o init_lines
                       \o SubSeq(lines, body_start, Len(lines))))

InsertGuards(lines, sig_end, init_lines) ==
    InsertLines(lines, BodyStart(lines, sig_end), init_lines)

Substituted(src, line, sig_end, ps) ==
    [i \in 1..Len(src) |->
        IF i >= line /\ i <= sig_end
        THEN [src[i] EXCEPT !.toks = SubstituteParams(src[i].toks, ps)]
        ELSE src[i]]

RewriteSpan(src, line, sig_end, ps) ==
    InsertGuards(Substituted(src, line, sig_end, ps), sig_end,
                 InitLines(get_function_body_indent(src, line), ps))

apply_mutable_default_fix(src, line, ps) ==
    IF ps = <<>> THEN NoText
    ELSE IF line < 1 \/ line > Len(src) THEN NoText
    ELSE RewriteSpan(src, line, SigEnd(src, line), ps)

----------------------------------------------------------------------------
(* ast.parse on the subset of Python the modelled texts are written in:    *)
(* def/class/if headers (with or without an inline statement), pass,       *)
(* return, assignment and expression statements, docstrings, comments;     *)
(* expressions are names, numbers, None, strings, list/dict/set displays   *)
(* and calls.  The result is [ok, defs]: ok is FALSE where ast.parse       *)
(* raises SyntaxError, defs are the FunctionDef nodes.                     *)

NLTOK == "\n"
Keywords == {"def", "if", "is", "return", "pass", "class", "None"}
Openers == {"(", "[", "{"}
Closers == {")", "]", "}"}
Punct == Openers \cup Closers \cup {",", ":", "=", "==", "*", "/", "**"}
Numbers == {"1", "2", "3"}
IsName(t) ==
    t \notin Keywords \cup Punct \cup Numbers \cup {TQ, "STR", "#", "#:", "#(", NLTOK}
IsAtom(t) == IsName(t) \/ t \in Numbers \cup {"None", "STR"}

PTok(t, ln, ind) == [t |-> t, ln |-> ln, ind |-> ind]
Plain(pt) == [k \in 1..Len(pt) |-> pt[k].t]

\* The members of a set of integers in increasing order.
SortedSeq(S) ==
    [k \in 1..Cardinality(S) |-> CHOOSE x \in S : Cardinality({y \in S : y < x}) = k - 1]

\* Bracket depth before position i.
DepthBefore(toks, i) ==
    Cardinality({j \in 1..(i - 1) : toks[j] \in Openers})
    - Cardinality({j \in 1..(i - 1) : toks[j] \in Closers})

\* The tokenizer on one physical line entered inside (instr) or outside a
\* triple-quoted string: keep the positions of the code tokens, strs the
\* positions where a string opens, instr whether the line ends inside a
\* string.  A comment runs to the end of the line.
RECURSIVE LexLine(_, _, _)
LexLine(toks, from, instr) ==
    LET E == {k \in from..Len(toks) : toks[k] = TQ \/ (~instr /\ IsComment(toks[k]))} IN
    IF E = {}
    THEN [keep |-> IF instr THEN {} ELSE from..Len(toks), strs |-> {}, instr |-> instr]
    ELSE LET e == CHOOSE x \in E : \A y \in E : x <= y IN
         IF instr
         THEN LexLine(toks, e + 1, FALSE)
         ELSE IF IsComment(toks[e])
         THEN [keep |-> from..(e - 1), strs |-> {}, instr |-> FALSE]
         ELSE LET r == LexLine(toks, e + 1, TRUE)
              IN  [keep |-> (from..(e - 1)) \cup r.keep, strs |-> {e} \cup r.strs,
                   instr |-> r.instr]

\* The tokenizer: comments dropped, a triple-quoted string (over any number
\* of lines) one STR token, line breaks inside brackets dropped, blank lines
\* dropped.  cur is the logical line being gathered, out the finished ones.
RECURSIVE LexScan(_, _, _, _, _, _)
\* One physical line, lx its LexLine.
LexPhysical(text, i, depth, cur, out, lx) ==
    LET pos  == SortedSeq(lx.keep \cup lx.strs)
        toks == [k \in 1..Len(pos) |->
                    IF pos[k] \in lx.strs THEN "STR" ELSE text[i].toks[pos[k]]]
        d    == depth + DepthBefore(toks, Len(pos) + 1)
        all  == cur \o [k \in 1..Len(pos) |-> PTok(toks[k], i, text[i].ind)]
    IN  IF \E k \in 1..Len(pos) : depth + DepthBefore(toks, k + 1) < 0
        THEN [ok |-> FALSE, lines |-> out]
        ELSE IF d > 0 \/ lx.instr \/ all = <<>>
        THEN LexScan(text, i + 1, d, lx.instr, all, out)
        ELSE LexScan(text, i + 1, d, FALSE, <<>>, Append(out, all))

LexScan(text, i, depth, instr, cur, out) ==
    IF i > Len(text)
    THEN [ok |-> ~instr /\ depth = 0, lines |-> out]
    ELSE LexPhysical(text, i, depth, cur, out, LexLine(text[i].toks, 1, instr))

\* The position of the bracket closing the one opened at i, 0 if none.
MatchClose(toks, i) ==
    LET S == {j \in (i + 1)..Len(toks) :
                 toks[j] \in Closers /\ DepthBefore(toks, j) = DepthBefore(toks, i) + 1}
    IN  IF S = {} THEN 0 ELSE CHOOSE j \in S : \A k \in S : j <= k

\* The positions of token t outside every bracket.
TopLevel(toks, t) == {i \in 1..Len(toks) : toks[i] = t /\ DepthBefore(toks, i) = 0}

\* pt split at its top-level commas (a trailing comma adds no piece).
Pieces(pt) ==
    LET toks == Plain(pt)
        C    == TopLevel(toks, ",")
        B    == <<0>> \o SortedSeq(C) \o <<Len(pt) + 1>>
        all  == [k \in 1..(Len(B) - 1) |-> SubSeq(pt, B[k] + 1, B[k + 1] - 1)]
    IN  IF Len(all) > 1 /\ all[Len(all)] = <<>>
        THEN SubSeq(all, 1, Len(all) - 1) ELSE all

RECURSIVE ValidExpr(_)
ValidPieces(ps, kind) ==
    /\ \A k \in 1..Len(ps) : ps[k] # <<>>
    /\ \/ /\ kind \in {"[", "{"}
          /\ \A k \in 1..Len(ps) : ValidExpr(ps[k])
       \/ /\ kind = "{"
          /\ \A k \in 1..Len(ps) :
               LET c == TopLevel(Plain(ps[k]), ":") IN
               /\ Cardinality(c) = 1
               /\ LET i == CHOOSE x \in c : TRUE IN
                  /\ ValidExpr(SubSeq(ps[k], 1, i - 1))
                  /\ ValidExpr(SubSeq(ps[k], i + 1, Len(ps[k])))
       \/ /\ kind = "("
          /\ \A k \in 1..Len(ps) :
               \/ ValidExpr(ps[k])
               \/ /\ Len(ps[k]) >= 3 /\ IsName(ps[k][1].t) /\ ps[k][2].t = "="
                  /\ ValidExpr(SubSeq(ps[k], 3, Len(ps[k])))

ValidItems(pt, kind) == pt = <<>> \/ ValidPieces(Pieces(pt), kind)

ValidExpr(pt) ==
    LET toks == Plain(pt) IN
    \/ Len(pt) = 1 /\ IsAtom(toks[1])
    \/ /\ Len(pt) >= 2 /\ toks[1] \in {"[", "{"}
       /\ MatchClose(toks, 1) = Len(pt)
       /\ toks[Len(pt)] = (IF toks[1] = "[" THEN "]" ELSE "}")
       /\ ValidItems(SubSeq(pt, 2, Len(pt) - 1), toks[1])
    \/ /\ Len(pt) >= 3 /\ IsName(toks[1]) /\ toks[2] = "("
       /\ MatchClose(toks, 2) = Len(pt) /\ toks[Len(pt)] = ")"
       /\ ValidItems(SubSeq(pt, 3, Len(pt) - 1), "(")

ValidSimple(pt) ==
    LET toks == Plain(pt) IN
    \/ toks = <<"pass">>
    \/ toks = <<"return">>
    \/ Len(pt) >= 2 /\ toks[1] = "return" /\ ValidExpr(Tail(pt))
    \/ Len(pt) >= 3 /\ IsName(toks[1]) /\ toks[2] = "=" /\ ValidExpr(SubSeq(pt, 3, Len(pt)))
    \/ ValidExpr(pt)

\* The source segment of an expression (ast.get_source_segment): one
\* fragment per physical line the expression spans.
RECURSIVE Segment(_)
Segment(pt) ==
    IF pt = <<>> THEN <<>>
    ELSE LET ln   == pt[1].ln
             here == {k \in 1..Len(pt) : pt[k].ln = ln}
             n    == Cardinality(here)
         IN  <<[ind |-> pt[1].ind, toks |-> Plain(SubSeq(pt, 1, n))]>>
             \o Segment(SubSeq(pt, n + 1, Len(pt)))

SourceSegment(pt) ==
    LET s == Segment(pt) IN [k \in 1..Len(s) |-> IF k = 1 THEN [s[k] EXCEPT !.ind = 0] ELSE s[k]]

\* An expression node: its class, whether it has no elements (a display) or
\* no positional arguments (a call), the called name, and its source text.
NoNode == [kind |-> "none", empty |-> TRUE, func |-> "", seg |-> <<>>]

PositionalArgs(pt) ==
    {k \in 1..Len(Pieces(pt)) :
        ~(Len(Pieces(pt)[k]) >= 3 /\ Pieces(pt)[k][2].t = "=")}

ExprNode(pt) ==
    LET toks == Plain(pt)
        kind == IF toks[1] = "[" THEN "List"
                ELSE IF toks[1] = "{"
                     THEN IF Len(pt) = 2 \/ TopLevel(SubSeq(toks, 2, Len(pt) - 1), ":") # {}
                          THEN "Dict" ELSE "Set"
                ELSE IF Len(pt) >= 3 /\ toks[2] = "(" THEN "Call"
                ELSE "Other"
    IN  [kind  |-> kind,
         empty |-> IF kind = "Call"
                   THEN Len(pt) = 3 \/ PositionalArgs(SubSeq(pt, 3, Len(pt) - 1)) = {}
                   ELSE Len(pt) = 2,
         func  |-> IF kind = "Call" THEN toks[1] ELSE "",
         seg   |-> SourceSegment(pt)]

\* One parameter of a signature: [ok, sep, name, node]; sep is "*" or "/"
\* for the separators (and *args), "" for a parameter.
ParamOf(pt) ==
    LET toks == Plain(pt)
        bad  == [ok |-> FALSE, sep |-> "", name |-> "", node |-> NoNode]
    IN  IF pt = <<>> THEN bad
        ELSE IF toks = <<"*">> \/ toks = <<"/">>
        THEN [ok |-> TRUE, sep |-> toks[1], name |-> "", node |-> NoNode]
        ELSE IF Len(pt) = 2 /\ toks[1] = "*" /\ IsName(toks[2])
        THEN [ok |-> TRUE, sep |-> "*", name |-> "", node |-> NoNode]
        ELSE IF ~IsName(toks[1]) THEN bad
        ELSE LET E  == TopLevel(toks, "=")
                 e  == IF E = {} THEN Len(pt) + 1 ELSE CHOOSE x \in E : \A y \in E : x <= y
                 annOk == \/ e = 2
                          \/ e >= 4 /\ toks[2] = ":" /\ ValidExpr(SubSeq(pt, 3, e - 1))
                 defOk == e > Len(pt) \/ ValidExpr(SubSeq(pt, e + 1, Len(pt)))
             IN  IF annOk /\ defOk
                 THEN [ok |-> TRUE, sep |-> "", name |-> toks[1],
                       node |-> IF e > Len(pt) THEN NoNode
                                ELSE ExprNode(SubSeq(pt, e + 1, Len(pt)))]
                 ELSE bad

\* The arguments node of a signature from the tokens between its
\* parentheses: [ok, posonlyargs, args, defaults, kwonlyargs, kw_defaults].
ArgumentsOf(ps, prm) ==
    LET stars == {k \in 1..Len(ps) : prm[k].sep = "*"}
        slash == {k \in 1..Len(ps) : prm[k].sep = "/"}
        star  == IF stars = {} THEN Len(ps) + 1 ELSE CHOOSE x \in stars : TRUE
        sl    == IF slash = {} THEN 0 ELSE CHOOSE x \in slash : TRUE
        pos   == SortedSeq({k \in 1..Len(ps) : k < star /\ prm[k].sep = ""})
        kw    == SortedSeq({k \in 1..Len(ps) : k > star /\ prm[k].sep = ""})
        withD == {k \in 1..Len(pos) : prm[pos[k]].node.kind # "none"}
    IN  [ok |-> /\ \A k \in 1..Len(ps) : prm[k].ok
                /\ Cardinality(stars) <= 1 /\ Cardinality(slash) <= 1
                /\ sl < star
                /\ (sl # 0 => sl > 1)
                /\ (stars # {} /\ Len(ps[star]) = 1 => kw # <<>>)
                /\ \A a, b \in 1..Len(pos) : a \in withD /\ a < b => b \in withD,
         posonlyargs |-> [k \in 1..Cardinality({j \in 1..Len(pos) : pos[j] < sl}) |->
                             prm[pos[k]].name],
         args        |-> LET n == Cardinality({j \in 1..Len(pos) : pos[j] < sl})
                         IN  [k \in 1..(Len(pos) - n) |-> prm[pos[n + k]].name],
         defaults    |-> LET d == SortedSeq(withD)
                         IN  [k \in 1..Len(d) |-> prm[pos[d[k]]].node],
         kwonlyargs  |-> [k \in 1..Len(kw) |-> prm[kw[k]].name],
         kw_defaults |-> [k \in 1..Len(kw) |-> prm[kw[k]].node]]

ParamsOf(ps) == ArgumentsOf(ps, [k \in 1..Len(ps) |-> ParamOf(ps[k])])

Arguments(pt) == ParamsOf(IF pt = <<>> THEN <<>> ELSE Pieces(pt))

NoArguments ==
    [ok |-> FALSE, posonlyargs |-> <<>>, args |-> <<>>, defaults |-> <<>>,
     kwonlyargs |-> <<>>, kw_defaults |-> <<>>]

\* One logical line as a statement: [ok, block, isdef, lineno, args]; block
\* says that an indented block must follow.  c is the first colon outside
\* brackets (0: none), rest the tokens after it.
NoStatement ==
    [ok |-> FALSE, block |-> FALSE, isdef |-> FALSE, lineno |-> 0, args |-> NoArguments]

FirstColon(toks) ==
    LET colons == TopLevel(toks, ":")
    IN  IF colons = {} THEN 0 ELSE CHOOSE x \in colons : \A y \in colons : x <= y

FunctionDef(pt, rest, a) ==
    [ok |-> a.ok, block |-> rest = <<>>, isdef |-> TRUE, lineno |-> pt[1].ln, args |-> a]

StatementOf(pt, toks, c, rest, restOk) ==
    IF toks[1] = "def"
    THEN IF Len(pt) >= 5 /\ IsName(toks[2]) /\ toks[3] = "("
            /\ MatchClose(toks, 3) # 0 /\ c = MatchClose(toks, 3) + 1 /\ restOk
         THEN FunctionDef(pt, rest, Arguments(SubSeq(pt, 4, c - 2)))
         ELSE NoStatement
    ELSE IF toks[1] = "class"
    THEN [NoStatement EXCEPT
            !.ok = Len(pt) >= 3 /\ IsName(toks[2]) /\ c = 3 /\ restOk,
            !.block = rest = <<>>]
    ELSE IF toks[1] = "if"
    THEN [NoStatement EXCEPT
            !.ok = /\ c >= 3 /\ restOk
                   /\ \/ ValidExpr(SubSeq(pt, 2, c - 1))
                      \/ /\ c = 5 /\ IsName(toks[2])
                         /\ toks[3] = "is" /\ toks[4] = "None",
            !.block = rest = <<>>]
    ELSE [NoStatement EXCEPT !.ok = ValidSimple(pt)]

StatementAt(pt, toks, c) ==
    StatementOf(pt, toks, c, SubSeq(pt, c + 1, Len(pt)),
                c = Len(pt) \/ ValidSimple(SubSeq(pt, c + 1, Len(pt))))

Statement(pt) == StatementAt(pt, Plain(pt), FirstColon(Plain(pt)))

\* The block structure: stack holds the open indentation levels, expect says
\* that the previous statement opened a block, s is the statement of line k.
RECURSIVE ParseLines(_, _, _, _, _)
ParseStatement(ls, k, stack, expect, defs, s) ==
    LET ind == ls[k][1].ind
        top == stack[Len(stack)]
        levels == {j \in 1..Len(stack) : stack[j] = ind}
        st1 == IF expect THEN Append(stack, ind)
               ELSE IF levels = {} THEN <<>>
               ELSE SubSeq(stack, 1, CHOOSE j \in levels : TRUE)
        indOk == IF expect THEN ind > top ELSE ind <= top /\ levels # {}
    IN  IF ~indOk \/ ~s.ok THEN [ok |-> FALSE, defs |-> defs]
        ELSE ParseLines(ls, k + 1, st1, s.block,
                        IF s.isdef
                        THEN Append(defs, [lineno |-> s.lineno, args |-> s.args])
                        ELSE defs)

ParseLines(ls, k, stack, expect, defs) ==
    IF k > Len(ls) THEN [ok |-> ~expect, defs |-> defs]
    ELSE ParseStatement(ls, k, stack, expect, defs, Statement(ls[k]))

Module(lx) ==
    IF ~lx.ok THEN [ok |-> FALSE, defs |-> <<>>]
    ELSE ParseLines(lx.lines, 1, <<0>>, FALSE, <<>>)

ast_parse(text) == Module(LexScan(text, 1, 0, FALSE, <<>>, <<>>))

----------------------------------------------------------------------------
(* find_mutable_default_params *)

Str(toks) == <<[ind |-> 0, toks |-> toks]>>

_get_source_segment(node) == node.seg

_reconstruct_list(node) ==
    IF node.empty THEN Str(<<"[", "]">>)
    ELSE IF _get_source_segment(node) # <<>> THEN _get_source_segment(node)
    ELSE Str(<<"[", "]">>)

Param(name, repr, kind) == [name |-> name, repr |-> repr, kind |-> kind]

\* args[i] for a Python list index i (0-based; a negative index counts from
\* the end).
PyIndex(seq, i) == IF i >= 0 THEN seq[i + 1] ELSE seq[Len(seq) + i + 1]

\* The loop over node.args.defaults, from 0-based index i on.
RECURSIVE PositionalDefaults(_, _)
PositionalDefaults(a, i) ==
    IF i >= Len(a.defaults) THEN <<>>
    ELSE LET default == a.defaults[i + 1]
             offset  == Len(a.args) - Len(a.defaults)
             param   == PyIndex(a.args, offset + i)
             hit ==
                 IF default.kind = "List"
                 THEN <<Param(param, _reconstruct_list(default), "list")>>
                 ELSE IF default.kind = "Dict"
                 THEN <<Param(param, Str(<<"{", "}">>), "dict")>>
                 ELSE IF default.kind = "Set"
                 THEN <<Param(param, Str(<<"set", "(", ")">>), "set")>>
                 ELSE IF default.kind = "Call"
                 THEN IF default.func = "list" /\ default.empty
                      THEN <<Param(param, Str(<<"[", "]">>), "list")>>
                      ELSE IF default.func = "dict" /\ default.empty
                      THEN <<Param(param, Str(<<"{", "}">>), "dict")>>
                      ELSE IF default.func = "set" /\ default.empty
                      THEN <<Param(param, Str(<<"set", "(", ")">>), "set")>>
                      ELSE IF default.func = "list" /\ ~default.empty
                      THEN <<Param(param, _get_source_segment(default), "list")>>
                      ELSE <<>>
                 ELSE <<>>
         IN  hit \o PositionalDefaults(a, i + 1)

\* The loop over node.args.kw_defaults, from 0-based index i on.
RECURSIVE KeywordDefaults(_, _)
KeywordDefaults(a, i) ==
    IF i >= Len(a.kw_defaults) THEN <<>>
    ELSE LET default == a.kw_defaults[i + 1]
             param   == a.kwonlyargs[i + 1]
             hit ==
                 IF default.kind = "none" THEN <<>>
                 ELSE IF default.kind = "List"
                 THEN <<Param(param, _reconstruct_list(default), "list")>>
                 ELSE IF default.kind = "Dict"
                 THEN <<Param(param, Str(<<"{", "}">>), "dict")>>
                 ELSE IF default.kind = "Set"
                 THEN <<Param(param, Str(<<"set", "(", ")">>), "set")>>
                 ELSE <<>>
         IN  hit \o KeywordDefaults(a, i + 1)

\* The default is one the loop over node.args.defaults appends a result for.
Qualifies(default) ==
    \/ default.kind \in {"List", "Dict", "Set"}
    \/ default.kind = "Call" /\ default.func \in {"list", "dict", "set"} /\ default.empty
    \/ default.kind = "Call" /\ default.func = "list" /\ ~default.empty

\* args[offset + i] raises IndexError: the index is below -len(args).
IndexError(a) ==
    \E i \in 0..(Len(a.defaults) - 1) :
        /\ Qualifies(a.defaults[i + 1])
        /\ Len(a.args) - Len(a.defaults) + i < -Len(a.args)

\* find_mutable_default_params raises: a declaration at the line has a
\* qualifying default whose index is out of range.
Raises(tree, line) ==
    tree.ok /\ \E k \in 1..Len(tree.defs) :
                   tree.defs[k].lineno = line /\ IndexError(tree.defs[k].args)

find_mutable_default_params_raises(src, line) == Raises(ast_parse(src), line)

RECURSIVE WalkDefs(_, _, _)
WalkDefs(defs, k, line) ==
    IF k > Len(defs) THEN <<>>
    ELSE (IF defs[k].lineno = line
          THEN PositionalDefaults(defs[k].args, 0) \o KeywordDefaults(defs[k].args, 0)
          ELSE <<>>)
         \o WalkDefs(defs, k + 1, line)

WalkTree(tree, line) ==
    IF ~tree.ok THEN <<>> ELSE WalkDefs(tree.defs, 1, line)

find_mutable_default_params(src, line) == WalkTree(ast_parse(src), line)

----------------------------------------------------------------------------
(* The source texts the fixer is run on *)

MaxParams == 2

ParamNames == <<"a", "b", "c", "d">>

\* The default values a parameter is declared with, as token streams (NLTOK
\* where the default continues on the next line).
DefaultToks(kind) ==
    CASE kind = "list0"  -> <<"[", "]">>
      [] kind = "list2"  -> <<"[", "1", ",", "2", "]">>
      [] kind = "list2nl" -> <<"[", "1", ",", NLTOK, "2", "]">>
      [] kind = "dict0"  -> <<"{", "}">>
      [] kind = "dict1"  -> <<"{", "1", ":", "2", "}">>
      [] kind = "set1"   -> <<"{", "1", "}">>
      [] kind = "setc"   -> <<"set", "(", ")">>
      [] kind = "listc"  -> <<"list", "(", ")">>
      [] kind = "dictc"  -> <<"dict", "(", ")">>
      [] kind = "listr"  -> <<"list", "(", "range", "(", "3", ")", ")">>
      [] kind = "None"   -> <<"None">>
      [] kind = "num"    -> <<"1">>

DefaultKinds ==
    {"list0", "list2", "list2nl", "dict0", "dict1", "set1", "setc", "listc",
     "dictc", "listr", "None", "num"}

\* One declared parameter: its default and whether it is annotated.
ParamChoices ==
    [kind : DefaultKinds, ann : {FALSE}]
    \cup [kind : {"list0", "dict1", "None"}, ann : {TRUE}]

ParamToks(name, c) ==
    <<name>> \o (IF c.ann THEN <<":", "List">> ELSE <<>>) \o <<"=">> \o DefaultToks(c.kind)

\* The parameter list: choices cs, a bare * before parameter number `star`
\* (0: none), sep the tokens between two parameters.
RECURSIVE ParamList(_, _, _, _)
ParamList(cs, k, star, sep) ==
    IF k > Len(cs) THEN <<>>
    ELSE (IF k = star THEN <<"*">> \o sep ELSE <<>>)
         \o ParamToks(ParamNames[k], cs[k])
         \o (IF k < Len(cs) THEN sep ELSE <<>>)
         \o ParamList(cs, k + 1, star, sep)

\* A token stream cut into lines at its NLTOKs: the first line at indent
\* ind, the following ones at indent cont.
RECURSIVE CutLines(_, _, _)
CutLines(stream, ind, cont) ==
    LET N == {k \in 1..Len(stream) : stream[k] = NLTOK} IN
    IF N = {} THEN <<L(ind, stream)>>
    ELSE LET n == CHOOSE x \in N : \A y \in N : x <= y
         IN  <<L(ind, SubSeq(stream, 1, n - 1))>>
             \o CutLines(SubSeq(stream, n + 1, Len(stream)), cont, cont)

Layouts == {"single", "multi", "inline", "comment"}
Docs == {"none", "single", "multi", "empty"}

\* A declaration: signature, docstring and body, at indentation ind.
\*   layout single   def f(a=[], b={}):
\*          multi    def f( / a=[], / b={}, / ):      one parameter a line
\*          inline   def f(a=[]): return a
\*          comment  def f(a=[]):  # note
\*   doc    none | single """doc""" | multi """doc / more / """ | empty """"""
\*   body   TRUE: a "return a" line follows
DeclLines(fname, cs, star, layout, doc, body, ind) ==
    LET head == <<"def", fname, "(">>
        sig  == CASE layout = "single" ->
                       head \o ParamList(cs, 1, star, <<",">>) \o <<")", ":">>
                  [] layout = "multi" ->
                       head \o <<NLTOK>> \o ParamList(cs, 1, star, <<",", NLTOK>>)
                       \o <<",", NLTOK, ")", ":">>
                  [] layout = "inline" ->
                       head \o ParamList(cs, 1, star, <<",">>)
                       \o <<")", ":", "return", ParamNames[1]>>
                  [] layout = "comment" ->
                       head \o ParamList(cs, 1, star, <<",">>) \o <<")", ":", "#">>
        docl == CASE doc = "none"   -> <<>>
                  [] doc = "single" -> <<L(ind + 4, <<TQ, "doc", TQ>>)>>
                  [] doc = "multi"  -> <<L(ind + 4, <<TQ, "doc">>), L(ind + 4, <<"more">>),
                                         L(ind + 4, <<TQ>>)>>
                  [] doc = "empty"  -> <<L(ind + 4, <<TQ, TQ>>)>>
    IN  CutLines(sig, ind, ind + 8)
        \o (IF layout = "inline" THEN <<>>
            ELSE docl \o (IF body THEN <<L(ind + 4, <<"return", ParamNames[1]>>)>>
                          ELSE <<>>))

\* The shapes of one declaration that are valid Python.
DeclShapes ==
    {sh \in [layout : Layouts, doc : Docs, body : BOOLEAN] :
        /\ sh.layout = "inline" => sh.doc = "none" /\ ~sh.body
        /\ sh.layout # "inline" => sh.body \/ sh.doc # "none"}

ParamSeqs == UNION {[1..n -> ParamChoices] : n \in 1..MaxParams}

\* The text around a declaration: at top level, after a statement, or as a
\* method of a class; the last line with or without its line break.
Contexts == {"top", "after", "method"}

NoFinalNewline(text) ==
    [k \in 1..Len(text) |-> IF k = Len(text) THEN [text[k] EXCEPT !.nl = FALSE] ELSE text[k]]

InContext(ctx, decl) ==
    CASE ctx = "top"    -> decl
      [] ctx = "after"  -> <<L(0, <<"x", "=", "1">>), L(0, <<>>)>> \o decl
      [] ctx = "method" -> <<L(0, <<"class", "C", ":">>)>> \o decl

CtxIndent(ctx) == IF ctx = "method" THEN 4 ELSE 0

\* Every signature in the plain shape, and a few signatures in every shape
\* and context.
FixerTexts ==
    {DeclLines("f", cs, star, "single", "none", TRUE, 0) :
        cs \in ParamSeqs, star \in 0..MaxParams}
    \cup
    {IF final THEN InContext(ctx, DeclLines("f", cs, 0, sh.layout, sh.doc, sh.body, CtxIndent(ctx)))
     ELSE NoFinalNewline(
              InContext(ctx, DeclLines("f", cs, 0, sh.layout, sh.doc, sh.body, CtxIndent(ctx)))) :
        cs \in {c \in ParamSeqs : \A k \in 1..Len(c) : c[k].kind \in {"list0", "dict1"} /\ ~c[k].ann},
        sh \in DeclShapes, ctx \in Contexts, final \in BOOLEAN}

\* Signatures with positional-only parameters: a "/" after parameter number
\* slash; a parameter has no default ("") or one of the kinds.
PosOnlyKinds == {"", "list0", "dict1", "num"}

PosOnlyParam(name, kind) ==
    IF kind = "" THEN <<name>> ELSE <<name, "=">> \o DefaultToks(kind)

RECURSIVE PosOnlyList(_, _, _)
PosOnlyList(kinds, k, slash) ==
    IF k > Len(kinds) THEN <<>>
    ELSE PosOnlyParam(ParamNames[k], kinds[k])
         \o (IF k = slash THEN <<",", "/">> ELSE <<>>)
         \o (IF k < Len(kinds) THEN <<",">> ELSE <<>>)
         \o PosOnlyList(kinds, k + 1, slash)

PosOnlyTexts ==
    {<<L(0, <<"def", "f", "(">> \o PosOnlyList(kinds, 1, slash) \o <<")", ":">>),
       L(4, <<"return", "a">>)>> :
        kinds \in UNION {[1..n -> PosOnlyKinds] : n \in 1..MaxParams},
        slash \in 0..MaxParams}

\* Declarations whose first line or body has a special shape, for each of
\* a few defaults of the parameter a:
\*   def f(a=[]):  # (note         a comment that holds a parenthesis
\*   def f(a=[], b=g(a=[])):       the default again as a keyword argument
\*   def f(a=[]): a = []           the default again after the colon
\*   def f(a=[]):  # note          a comment after the colon, the body
\*       if a:                     beginning with a block
\*           return a
\*   def f(a=[]):  # note          a comment after the colon, the body
\*     return a                    indented by two
ShapedKinds == {"list0", "list2", "dict0"}

ShapedTexts ==
    UNION {
        LET d   == DefaultToks(kind)
            sig == <<"def", "f", "(", "a", "=">> \o d
        IN  {<<L(0, sig \o <<")", ":", "#(">>), L(4, <<"return", "a">>)>>,
             <<L(0, sig \o <<",", "b", "=", "g", "(", "a", "=">> \o d \o <<")", ")", ":">>),
               L(4, <<"return", "a">>)>>,
             <<L(0, sig \o <<")", ":", "a", "=">> \o d)>>,
             <<L(0, sig \o <<")", ":", "#">>), L(4, <<"if", "a", ":">>),
               L(8, <<"return", "a">>)>>,
             <<L(0, sig \o <<")", ":", "#">>), L(2, <<"return", "a">>)>>} :
        kind \in ShapedKinds}

----------------------------------------------------------------------------
(* The fix command: cmd_fix and apply_fixes_to_file *)

MaxActions == 2

\* File paths are character sequences; Ord gives the characters' order.
Alphabet ==
    <<".", "/", "0", "1", "2", "3", "4", "5", "6", "7", "8", "9", "A", "a", "b", "c">>
Ord(c) == CHOOSE k \in 1..Len(Alphabet) : Alphabet[k] = c

\* p < q for Python strings (lexicographic by code point).
StrLess(p, q) ==
    \E k \in 1..(Min(Len(p), Len(q)) + 1) :
        /\ \A j \in 1..(k - 1) : p[j] = q[j]
        /\ \/ k > Len(p) /\ k <= Len(q)
           \/ k <= Len(p) /\ k <= Len(q) /\ Ord(p[k]) < Ord(q[k])

\* sorted(seq, key=...): Python's sort is stable.  Less(x, y) compares keys.
StableSort(seq, Less(_, _)) ==
    LET rank(i) == Cardinality({j \in 1..Len(seq) : Less(seq[j], seq[i])})
                   + Cardinality({j \in 1..(i - 1) :
                                     ~Less(seq[j], seq[i]) /\ ~Less(seq[i], seq[j])})
    IN  [k \in 1..Len(seq) |-> seq[CHOOSE i \in 1..Len(seq) : rank(i) = k - 1]]

GST_MUTABLE_DEFAULT_001 == "GST_MUTABLE_DEFAULT_001"
SUPPORTED_RULES == {GST_MUTABLE_DEFAULT_001}
fixers == {GST_MUTABLE_DEFAULT_001}

can_fix(action) == action.rule_id \in SUPPORTED_RULES

\* What is at a path under root: nothing, a regular file of UTF-8 text, or
\* something that exists and cannot be read as one (a directory).
NoFile == [exists |-> FALSE, regular |-> FALSE, text |-> <<>>]
File(t) == [exists |-> TRUE, regular |-> TRUE, text |-> t]
Directory == [exists |-> TRUE, regular |-> FALSE, text |-> <<>>]

PathA == <<"a">>
PathB == <<"b">>
Paths == {PathA, PathB}

\* "./a": another spelling of PathA in a plan.
PathDotA == <<".", "/", "a">>

\* full_path = root / rel_path names the file under root: pathlib drops the
\* "." components of rel_path.
RECURSIVE full_path(_)
full_path(rel_path) ==
    IF Len(rel_path) >= 2 /\ rel_path[1] = "." /\ rel_path[2] = "/"
    THEN full_path(SubSeq(rel_path, 3, Len(rel_path)))
    ELSE rel_path

\* The target files the command is run on.
Decl2(fname, kind, layout) ==
    DeclLines(fname, <<[kind |-> kind, ann |-> FALSE]>>, 0, layout, "none",
              layout # "inline", 0)

DriverTexts ==
    {Decl2("f", "list0", "single") \o Decl2("g", "list0", "single"),
     Decl2("f", "list0", "inline") \o Decl2("g", "list0", "single"),
     Decl2("f", "dict1", "single") \o Decl2("g", "None", "single"),
     <<L(0, <<"x", "=", "1">>)>> \o Decl2("f", "list0", "single")}

\* The plan's actions the command is given.
PlanLines == 1..4
PlanActions ==
    [file_path : {PathA}, line_start : PlanLines,
     rule_id : {GST_MUTABLE_DEFAULT_001}, safety_level : {"safe"}]
    \cup [file_path : {PathA}, line_start : {1},
          rule_id : {GST_MUTABLE_DEFAULT_001}, safety_level : {"manual", "semi_auto"}]
    \cup [file_path : {PathA}, line_start : {1},
          rule_id : {"DC_UNREACHABLE_001"}, safety_level : {"safe"}]
    \cup [file_path : {PathB}, line_start : {1},
          rule_id : {GST_MUTABLE_DEFAULT_001}, safety_level : {"safe"}]
    \cup [file_path : {PathDotA}, line_start : {3},
          rule_id : {GST_MUTABLE_DEFAULT_001}, safety_level : {"safe"}]

Plans == UNION {[1..n -> PlanActions] : n \in 0..MaxActions}

\* action_id is the action's position in the plan.
WithIds(p) ==
    [k \in 1..Len(p) |->
        [action_id |-> k, rule_id |-> p[k].rule_id, safety_level |-> p[k].safety_level,
         file_path |-> p[k].file_path, line_start |-> p[k].line_start]]

NoRule == "None"

\* cmd_fix, lines 143-148: the rule filter, then the safe filter.
RuleFiltered(actions, rule) ==
    IF rule # NoRule THEN LET t(a) == a.rule_id = rule IN SelectSeq(actions, t)
    ELSE actions

\* A driver without the safety filter.
SafeActions_AnyLevel(actions) == actions

SafeActions(actions) ==
    LET t(a) == a.safety_level = "safe" IN SelectSeq(actions, t)

\* cmd_fix, lines 156-160: the safe actions of supported rules, by file.
Grouped(safe_actions) ==
    LET t(a) == a.rule_id \in fixers IN SelectSeq(safe_actions, t)

ActionsOfFile(grouped, path) ==
    LET t(a) == a.file_path = path IN SelectSeq(grouped, t)

\* sorted(actions_by_file.items()): the paths in increasing order.
SortedPaths(grouped) ==
    LET P == {grouped[k].file_path : k \in 1..Len(grouped)}
    IN  [k \in 1..Cardinality(P) |->
            CHOOSE p \in P : Cardinality({q \in P : StrLess(q, p)}) = k - 1]

\* apply_fixes_to_file, line 320: sorted(actions, key=lambda a: -a.line_start)
DescendingLine(x, y) == -x.line_start < -y.line_start
actions_sorted(actions) == StableSort(actions, DescendingLine)

\* A write that does not look at dry_run.
ShouldWrite_IgnoringDryRun(modified, original, dry_run) == modified # original

\* apply_fixes_to_file, line 341: if modified != source and not dry_run
ShouldWrite(modified, original, dry_run) == modified # original /\ ~dry_run

NoFrame ==
    [path |-> <<>>, source |-> <<>>, modified |-> <<>>, actions |-> <<>>, idx |-> 0,
     applied |-> 0, errors |-> <<>>]

\* The fixer class at rest: no action handed over, nothing returned.
NoAction == [rule_id |-> "", line_start |-> 0, replacement_code |-> NoText,
             rationale |-> [by |-> "none"]]
NoResult == [status |-> ""]

IdleApply == fix_action = NoAction /\ fix_result = NoResult

IdleFixer ==
    /\ source = <<>> /\ line_start = 0 /\ params = <<>> /\ fixed = NoText /\ again = <<>>
    /\ IdleApply

NoRunResult == [run |-> [run_id |-> "", signal_logic_version |-> ""], findings |-> <<>>]
NoPlan == [actions |-> <<>>]
NoInput == [exists |-> FALSE, kind |-> "none", data |-> [kind |-> "none"]]

IdlePlanner ==
    /\ run_result = NoRunResult /\ rescue_plan = NoPlan

IdlePlanCommand ==
    /\ plan_args = [input |-> "-", output |-> "-"] /\ input = NoInput /\ outcomes = <<>>

NotNumbered == [action_num |-> 0, action |-> <<>>]

IdleNumbering == numbered = NotNumbered

IdleDriver ==
    /\ args = [plan_exists |-> FALSE, root_exists |-> FALSE, apply |-> FALSE,
               backup |-> FALSE, rule |-> NoRule]
    /\ plan = <<>>
    /\ fs = [p \in Paths |-> NoFile] /\ fs0 = fs /\ bak = fs
    /\ queue = <<>> /\ file = NoFrame
    /\ totals = [applied |-> 0, errors |-> 0]
    /\ exit_code = -1 /\ log = <<>> /\ io = <<>>

Init ==
    /\ mode = "fix"
    /\ pc = "start"
    /\ IdleFixer
    /\ IdlePlanner
    /\ IdlePlanCommand
    /\ IdleNumbering
    /\ \/ /\ args \in [plan_exists : {TRUE}, root_exists : {TRUE}, apply : BOOLEAN,
                      backup : BOOLEAN,
                      rule : {NoRule, GST_MUTABLE_DEFAULT_001, "DC_UNREACHABLE_001"}]
          /\ plan \in {WithIds(p) : p \in Plans}
          /\ \E fa \in {NoFile, Directory} \cup {File(t) : t \in DriverTexts},
                fb \in {NoFile, File(Decl2("f", "list0", "single"))} :
                 fs = [p \in Paths |-> IF p = PathA THEN fa ELSE fb]
       \/ /\ args \in {[plan_exists |-> pe, root_exists |-> re, apply |-> TRUE,
                       backup |-> TRUE, rule |-> NoRule] :
                          pe, re \in BOOLEAN}
          /\ ~(args.plan_exists /\ args.root_exists)
          /\ plan = WithIds(<<[file_path |-> PathB, line_start |-> 1,
                               rule_id |-> GST_MUTABLE_DEFAULT_001,
                               safety_level |-> "safe"]>>)
          /\ fs = [p \in Paths |-> File(Decl2("f", "list0", "single"))]
    /\ fs0 = fs
    /\ bak = [p \in Paths |-> NoFile]
    /\ queue = <<>> /\ file = NoFrame
    /\ totals = [applied |-> 0, errors |-> 0]
    /\ exit_code = -1 /\ log = <<>> /\ io = <<>>

\* cmd_fix, lines 130-175: the checks of the plan file and the root
\* directory, the filters and the grouping.
CmdFixStart ==
    /\ mode = "fix" /\ pc = "start"
    /\ IF ~args.plan_exists \/ ~args.root_exists
       THEN /\ exit_code' = 2
            /\ pc' = "done"
            /\ queue' = queue
       ELSE LET grouped == Grouped(SafeActions(RuleFiltered(plan, args.rule)))
            IN  IF grouped = <<>>
                THEN exit_code' = 0 /\ pc' = "done" /\ queue' = queue
                ELSE /\ queue' = SortedPaths(grouped)
                     /\ pc' = "file"
                     /\ exit_code' = exit_code
    /\ UNCHANGED <<mode, fixerVars, planVars, args, plan, fs, fs0, bak, file, totals, log, io>>

\* cmd_fix, lines 177-182: the target file does not exist.
SkipMissingFile ==
    /\ mode = "fix" /\ pc = "file" /\ queue # <<>>
    /\ ~fs[full_path(Head(queue))].exists
    /\ totals' = [totals EXCEPT !.errors = @ + 1]
    /\ log' = Append(log, [what |-> "missing", path |-> Head(queue), action_id |-> 0,
                           line |-> 0, changed |-> FALSE])
    /\ queue' = Tail(queue)
    /\ UNCHANGED <<mode, pc, fixerVars, planVars, args, plan, fs, fs0, bak, file, exit_code, io>>

\* cmd_fix, lines 199-205, and apply_fixes_to_file, line 316: the target
\* exists and is not a regular file of UTF-8 text.  shutil.copy2 (with
\* --backup and --apply) or read_text raises OSError or UnicodeDecodeError,
\* which nothing catches: the command ends with a traceback and the
\* interpreter's exit status 1.
ReadFails ==
    /\ mode = "fix" /\ pc = "file" /\ queue # <<>>
    /\ fs[full_path(Head(queue))].exists /\ ~fs[full_path(Head(queue))].regular
    /\ log' = Append(log, [what |-> "raised", path |-> Head(queue), action_id |-> 0,
                           line |-> 0, changed |-> FALSE])
    /\ exit_code' = 1
    /\ pc' = "aborted"
    /\ UNCHANGED <<mode, fixerVars, planVars, args, plan, fs, fs0, bak, queue, file, totals, io>>

\* cmd_fix, lines 184-209, and apply_fixes_to_file, lines 309-320: the
\* RescueAction objects, the backup, the read of the file and the sort.
BeginFile ==
    /\ mode = "fix" /\ pc = "file" /\ queue # <<>>
    /\ fs[full_path(Head(queue))].exists /\ fs[full_path(Head(queue))].regular
    /\ LET path == Head(queue)
           rescue_actions ==
               ActionsOfFile(Grouped(SafeActions(RuleFiltered(plan, args.rule))), path)
           backup == args.backup /\ args.apply
       IN  /\ bak' = IF backup THEN [bak EXCEPT ![full_path(path)] = fs[full_path(path)]]
                      ELSE bak
           /\ io' = io \o (IF backup THEN <<[op |-> "backup", path |-> full_path(path)]>>
                             ELSE <<>>)
                       \o <<[op |-> "read", path |-> full_path(path)]>>
           /\ file' = [path |-> path, source |-> fs[full_path(path)].text,
                       modified |-> fs[full_path(path)].text,
                       actions |-> actions_sorted(rescue_actions),
                       idx |-> 1, applied |-> 0, errors |-> <<>>]
    /\ pc' = "action"
    /\ UNCHANGED <<mode, fixerVars, planVars, args, plan, fs, fs0, queue, totals, exit_code, log>>

\* The retry of apply_fixes_to_file, lines 329-333: found[k] is the result
\* of the locate at the k-th offset of range(-3, 4); the first that is not
\* empty is taken and the action's line moved by its offset.
Retry_KeepLine(found, line) ==
    LET O == {k \in 1..7 : found[k] # <<>>}
    IN  IF O = {} THEN [line |-> line, params |-> <<>>]
        ELSE LET k == CHOOSE x \in O : \A y \in O : x <= y
             IN  [line |-> line, params |-> found[k]]

Retry(found, line) ==
    LET O == {k \in 1..7 : found[k] # <<>>}
    IN  IF O = {} THEN [line |-> line, params |-> <<>>]
        ELSE LET k == CHOOSE x \in O : \A y \in O : x <= y
             IN  [line |-> line + k - 4, params |-> found[k]]

\* apply_fixes_to_file, lines 325-333: first is the locate at the recorded
\* line.
Located(modified, line, first) ==
    IF first # <<>> THEN [line |-> line, params |-> first]
    ELSE Retry([k \in 1..7 |-> find_mutable_default_params(modified, line + k - 4)], line)

\* apply_fixes_to_file, lines 335-339: loc is where the declaration was
\* located, new_source the rewritten text.
Processed(action, loc, new_source) ==
    LET what == IF ~can_fix(action) THEN "unsupported"
                ELSE IF loc.params = <<>> THEN "not_located"
                ELSE IF ~new_source.ok THEN "no_rewrite"
                ELSE "applied"
    IN  /\ file' = [file EXCEPT
                      !.idx = @ + 1,
                      !.actions[file.idx].line_start = IF can_fix(action) THEN loc.line ELSE @,
                      !.modified = IF what = "applied" THEN new_source.text ELSE @,
                      !.applied = IF what = "applied" THEN @ + 1 ELSE @]
        /\ log' = Append(log, [what |-> what, path |-> file.path,
                               action_id |-> action.action_id, line |-> loc.line,
                               changed |-> what = "applied"
                                           /\ new_source.text # file.modified])

Rewritten(action, loc) ==
    Processed(action, loc, apply_mutable_default_fix(file.modified, loc.line, loc.params))

\* apply_fixes_to_file, lines 322-339: one turn of the loop over the
\* sorted actions.
FixAction ==
    /\ mode = "fix" /\ pc = "action" /\ file.idx <= Len(file.actions)
    /\ Rewritten(file.actions[file.idx],
                 Located(file.modified, file.actions[file.idx].line_start,
                         find_mutable_default_params(file.modified,
                                                     file.actions[file.idx].line_start)))
    /\ UNCHANGED <<mode, pc, fixerVars, planVars, args, plan, fs, fs0, bak, queue, totals,
                   exit_code, io>>

\* apply_fixes_to_file, lines 341-344, and cmd_fix, lines 211-219: the
\* write of the changed text and the counts of the file added to the totals.
EndFile ==
    /\ mode = "fix" /\ pc = "action" /\ file.idx > Len(file.actions)
    /\ LET write == ShouldWrite(file.modified, file.source, ~args.apply)
       IN  /\ fs' = IF write THEN [fs EXCEPT ![full_path(file.path)] = File(file.modified)]
                     ELSE fs
           /\ io' = io \o (IF write THEN <<[op |-> "write", path |-> full_path(file.path)]>>
                             ELSE <<>>)
    /\ totals' = [applied |-> totals.applied + file.applied,
                  errors |-> totals.errors + Len(file.errors)]
    /\ queue' = Tail(queue)
    /\ pc' = "file"
    /\ UNCHANGED <<mode, fixerVars, planVars, args, plan, fs0, bak, file, exit_code, log>>

\* cmd_fix, lines 221-230: the summary and the exit code.
Summary ==
    /\ mode = "fix" /\ pc = "file" /\ queue = <<>>
    /\ exit_code' = IF totals.errors = 0 THEN 0 ELSE 1
    /\ pc' = "done"
    /\ UNCHANGED <<mode, fixerVars, planVars, args, plan, fs, fs0, bak, queue, file, totals, log, io>>

Next ==
    CmdFixStart \/ SkipMissingFile \/ ReadFails \/ BeginFile \/ FixAction \/ EndFile
    \/ Summary

Spec == Init /\ [][Next]_vars

----------------------------------------------------------------------------
(* The planner: _finding_priority and create_rescue_plan.  A confidence is *)
(* a number of thousandths: k stands for the float k/1000.                 *)

MaxFindings == 2

SEVERITY_PRIORITY == [critical |-> 4, high |-> 3, medium |-> 2, low |-> 1, info |-> 0]

\* SEVERITY_PRIORITY.get(severity, 0)
SeverityPriority(severity) ==
    IF severity \in DOMAIN SEVERITY_PRIORITY THEN SEVERITY_PRIORITY[severity] ELSE 0

\* int(confidence * 100): the float product cut to its integer part.  For
\* k in FloatShort the product k/1000 * 100 is the float just below k/10
\* (0.29 * 100 = 28.999999999999996); for every other k of 0..1000 its
\* integer part is that of k/10.
FloatShort == {290, 570, 580}
IntConfidence(k) == IF k \in FloatShort THEN (k \div 10) - 1 ELSE k \div 10

\* A key without the line.
_finding_priority_NoLine(finding) ==
    <<-SeverityPriority(finding.severity), -IntConfidence(finding.confidence),
      finding.location.path, 0>>

\* A key with the severity rank not negated.
_finding_priority_Ascending(finding) ==
    <<SeverityPriority(finding.severity), -IntConfidence(finding.confidence),
      finding.location.path, finding.location.line_start>>

_finding_priority(finding) ==
    <<-SeverityPriority(finding.severity), -IntConfidence(finding.confidence),
      finding.location.path, finding.location.line_start>>

\* x < y for two keys (Python's comparison of tuples).
KeyLess(x, y) ==
    \/ x[1] < y[1]
    \/ x[1] = y[1] /\ x[2] < y[2]
    \/ x[1] = y[1] /\ x[2] = y[2] /\ StrLess(x[3], y[3])
    \/ x[1] = y[1] /\ x[2] = y[2] /\ x[3] = y[3] /\ x[4] < y[4]

PriorityLess(f, g) == KeyLess(_finding_priority(f), _finding_priority(g))

\* The values of the enums ActionType and SafetyLevel, in definition order.
ActionType == <<"remove", "replace", "extract", "refactor", "flag">>
SafetyLevel == <<"safe", "semi_auto", "manual">>

RULE_ACTION_MAP ==
    [DC_UNREACHABLE_001 |-> <<"remove", "safe">>,
     DC_IF_FALSE_001 |-> <<"remove", "safe">>,
     DC_ASSERT_FALSE_001 |-> <<"flag", "manual">>,
     GST_MUTABLE_DEFAULT_001 |-> <<"replace", "safe">>,
     GST_MUTABLE_MODULE_001 |-> <<"flag", "manual">>,
     GST_GLOBAL_KEYWORD_001 |-> <<"refactor", "manual">>,
     SEC_HARDCODED_SECRET_001 |-> <<"extract", "semi_auto">>,
     SEC_EVAL_001 |-> <<"replace", "manual">>,
     SEC_SUBPROCESS_SHELL_001 |-> <<"replace", "semi_auto">>,
     SEC_SQL_INJECTION_001 |-> <<"replace", "semi_auto">>,
     SEC_PICKLE_LOAD_001 |-> <<"flag", "manual">>,
     SEC_YAML_UNSAFE_001 |-> <<"replace", "safe">>,
     EXC_SWALLOW_001 |-> <<"flag", "manual">>,
     EXC_BROAD_LOGGED_001 |-> <<"flag", "manual">>]

\* A mapping whose default is the safe replacement.
get_action_mapping_DefaultSafe(rule_id) ==
    IF rule_id \in DOMAIN RULE_ACTION_MAP THEN RULE_ACTION_MAP[rule_id]
    ELSE <<"replace", "safe">>

\* RULE_ACTION_MAP.get(rule_id, (ActionType.FLAG, SafetyLevel.MANUAL))
get_action_mapping(rule_id) ==
    IF rule_id \in DOMAIN RULE_ACTION_MAP THEN RULE_ACTION_MAP[rule_id]
    ELSE <<"flag", "manual">>

\* Finding.rule_id: metadata.get("rule_id"); NoRule stands for None.
FindingRuleId(finding) ==
    IF "rule_id" \in DOMAIN finding.metadata THEN finding.metadata.rule_id ELSE NoRule

\* str.upper() on the finding types the inputs are written with.
FindingTypes == {"", "dead_code", "Security", "gst_mutable_default_001"}
Upper(type) ==
    CASE type = "" -> ""
      [] type = "dead_code" -> "DEAD_CODE"
      [] type = "Security" -> "SECURITY"
      [] type = "gst_mutable_default_001" -> "GST_MUTABLE_DEFAULT_001"

\* finding.rule_id or f"{finding.type.upper()}_UNKNOWN": None and "" are falsy.
ResolvedRuleId(finding) ==
    IF FindingRuleId(finding) \in {NoRule, ""} THEN Upper(finding.type) \o "_UNKNOWN"
    ELSE FindingRuleId(finding)

\* f"{n:04d}": the decimal digits of n, padded with zeros on the left to a
\* width of at least 4; an identifier is the sequence of its characters.
Digit == <<"0", "1", "2", "3", "4", "5", "6", "7", "8", "9">>

RECURSIVE Decimal(_)
Decimal(n) ==
    IF n < 10 THEN <<Digit[n + 1]>> ELSE Append(Decimal(n \div 10), Digit[(n % 10) + 1])

RECURSIVE ZeroPad(_, _)
ZeroPad(digits, width) ==
    IF Len(digits) >= width THEN digits ELSE ZeroPad(<<"0">> \o digits, width)

ActionId(action_num) == <<"A">> \o ZeroPad(Decimal(action_num), 4)

CreateAction(finding, action_num, rule_id, mapping) ==
    [action_id |-> ActionId(action_num), finding_id |-> finding.finding_id,
     rule_id |-> rule_id, action_type |-> mapping[1], safety_level |-> mapping[2],
     file_path |-> finding.location.path, line_start |-> finding.location.line_start,
     line_end |-> finding.location.line_end]

_create_action_from_finding(finding, action_num) ==
    CreateAction(finding, action_num, ResolvedRuleId(finding),
                 get_action_mapping(ResolvedRuleId(finding)))

Enumerated(sorted_findings) ==
    [i \in 1..Len(sorted_findings) |->
        _create_action_from_finding(sorted_findings[i], i - 1)]

\* The number of actions whose field has the value.
CountOf(actions, field, value) ==
    Cardinality({k \in 1..Len(actions) : actions[k][field] = value})

Values(enum) == {enum[k] : k \in 1..Len(enum)}

\* A summary whose auto_fixable counts the safe actions only.
PlanSummary_SafeOnly(actions) ==
    [total_actions |-> Len(actions),
     by_safety_level |->
         [level \in Values(SafetyLevel) |-> CountOf(actions, "safety_level", level)],
     by_action_type |->
         [atype \in Values(ActionType) |-> CountOf(actions, "action_type", atype)],
     by_rule_id |->
         [rule \in {actions[k].rule_id : k \in 1..Len(actions)} |->
             CountOf(actions, "rule_id", rule)],
     auto_fixable |-> CountOf(actions, "safety_level", "safe"),
     manual_review |-> CountOf(actions, "safety_level", "manual")]

\* create_rescue_plan, lines 110-127
PlanSummary(actions) ==
    [total_actions |-> Len(actions),
     by_safety_level |->
         [level \in Values(SafetyLevel) |-> CountOf(actions, "safety_level", level)],
     by_action_type |->
         [atype \in Values(ActionType) |-> CountOf(actions, "action_type", atype)],
     by_rule_id |->
         [rule \in {actions[k].rule_id : k \in 1..Len(actions)} |->
             CountOf(actions, "rule_id", rule)],
     auto_fixable |-> CountOf(actions, "safety_level", "safe")
                      + CountOf(actions, "safety_level", "semi_auto"),
     manual_review |-> CountOf(actions, "safety_level", "manual")]

RescuePlan(rr, actions) ==
    [schema_version |-> "rescue_plan_v1",
     source_run_id |-> rr.run.run_id,
     source_signal_logic_version |-> rr.run.signal_logic_version,
     actions |-> actions, summary |-> PlanSummary(actions)]

\* A planner whose numbering goes on from the plan made before.
create_rescue_plan_Continuing(rr) ==
    RescuePlan(rr, [i \in 1..Len(rr.findings) |->
                       _create_action_from_finding(
                           StableSort(rr.findings, PriorityLess)[i],
                           Len(rescue_plan.actions) + i - 1)])

create_rescue_plan(rr) ==
    RescuePlan(rr, Enumerated(StableSort(rr.findings, PriorityLess)))

\* The findings the planner is given; finding_id is the position in the input.
Severities == {"critical", "high", "medium", "low", "info", "blocker"}
Confidences == {280, 286, 290, 1000}
FindingPaths == {<<"a", "b">>, <<"b">>}
FindingLines == {1, 2}

Findings ==
    [severity : Severities, confidence : Confidences,
     location : [path : FindingPaths, line_start : FindingLines]]

WithFindingIds(found) ==
    [k \in 1..Len(found) |->
        [finding_id |-> k, type |-> "dead_code", severity |-> found[k].severity,
         confidence |-> found[k].confidence,
         location |-> [path |-> found[k].location.path,
                       line_start |-> found[k].location.line_start,
                       line_end |-> found[k].location.line_start],
         metadata |-> [rule_id |-> "DC_UNREACHABLE_001"]]]

InitPlan ==
    /\ mode = "plan"
    /\ pc = "start"
    /\ \E n \in 0..MaxFindings : \E found \in [1..n -> Findings] :
           run_result = [run |-> [run_id |-> "r1", signal_logic_version |-> "v1"],
                         findings |-> WithFindingIds(found)]
    /\ rescue_plan = NoPlan
    /\ IdlePlanCommand
    /\ IdleNumbering
    /\ IdleFixer
    /\ IdleDriver

\* cmd_plan, line 115: plan = create_rescue_plan(run_result)
CreateRescuePlan ==
    /\ mode = "plan" /\ pc = "start"
    /\ rescue_plan' = create_rescue_plan(run_result)
    /\ pc' = "planned"
    /\ UNCHANGED <<mode, fixerVars, driverVars, run_result, plan_args, input, outcomes, numbered>>

NextPlan == CreateRescuePlan

SpecPlan == InitPlan /\ [][NextPlan]_vars

----------------------------------------------------------------------------
(* The numbering of the actions: _create_action_from_finding at one        *)
(* position of create_rescue_plan's enumerate(sorted_findings).            *)

\* The largest position the numbering is run at (a plan of MaxActionNum + 1
\* actions).
MaxActionNum == 10000

InitNumbering ==
    /\ mode = "numbering"
    /\ pc = "start"
    /\ \E n \in 0..MaxActionNum : numbered = [action_num |-> n, action |-> <<>>]
    /\ run_result = [run |-> [run_id |-> "r1", signal_logic_version |-> "v1"],
                     findings |-> WithFindingIds(<<[severity |-> "high", confidence |-> 500,
                         location |-> [path |-> <<"a">>, line_start |-> 1]]>>)]
    /\ rescue_plan = NoPlan
    /\ IdlePlanCommand
    /\ IdleFixer
    /\ IdleDriver

\* create_rescue_plan, lines 105-108: the element at position action_num
NumberAction ==
    /\ mode = "numbering" /\ pc = "start"
    /\ numbered' = [action_num |-> numbered.action_num,
                    action |-> _create_action_from_finding(run_result.findings[1],
                                                           numbered.action_num)]
    /\ pc' = "numbered"
    /\ UNCHANGED <<mode, fixerVars, driverVars, run_result, rescue_plan, plan_args,
                   input, outcomes>>

NextNumbering == NumberAction

SpecNumbering == InitNumbering /\ [][NextNumbering]_vars

----------------------------------------------------------------------------
(* The plan command: load_run_result and cmd_plan.  A parsed JSON value is *)
(* [kind |-> "dict", items |-> a function of its keys] or, for an array,   *)
(* a string, a number or null, [kind |-> its kind].  The value of          *)
(* schema_version is tagged with its JSON type.                            *)

Dict(items) == [kind |-> "dict", items |-> items]
JsonStr(s) == [str |-> s]
JsonNum(n) == [num |-> n]
JsonNull == [null |-> TRUE]

\* d.get(key, default)
Get(d, key, default) == IF key \in DOMAIN d THEN d[key] ELSE default

EmptyDict == [k \in {} |-> 0]

_parse_location(data) ==
    [path |-> Get(data, "path", <<>>),
     line_start |-> Get(data, "line_start", 0),
     line_end |-> Get(data, "line_end", 0)]

_parse_finding(data) ==
    [finding_id |-> Get(data, "finding_id", ""),
     type |-> Get(data, "type", ""),
     severity |-> Get(data, "severity", "info"),
     location |-> _parse_location(Get(data, "location", EmptyDict)),
     confidence |-> Get(data, "confidence", 0),
     metadata |-> Get(data, "metadata", EmptyDict)]

_parse_run_metadata(data) ==
    [run_id |-> Get(data, "run_id", ""),
     signal_logic_version |-> Get(data, "signal_logic_version", "")]

RunResult(run_data, findings_raw) ==
    [run |-> _parse_run_metadata(run_data),
     findings |-> [k \in 1..Len(findings_raw) |-> _parse_finding(findings_raw[k])]]

\* A loader for which a missing findings_raw is a schema mismatch.
load_run_result_FindingsRequired(data) ==
    IF data.kind # "dict" THEN [status |-> "raised", value |-> NoRunResult]
    ELSE IF Get(data.items, "schema_version", JsonNull) # JsonStr("run_result_v1")
            \/ "findings_raw" \notin DOMAIN data.items
         THEN [status |-> "none", value |-> NoRunResult]
    ELSE [status |-> "ok",
          value |-> RunResult(Get(data.items, "run", EmptyDict),
                              Get(data.items, "findings_raw", <<>>))]

\* status is "ok" with the RunResult, "none" where None is returned, and
\* "raised" where data.get raises AttributeError (data is not a dict).
load_run_result(data) ==
    IF data.kind # "dict" THEN [status |-> "raised", value |-> NoRunResult]
    ELSE IF Get(data.items, "schema_version", JsonNull) # JsonStr("run_result_v1")
         THEN [status |-> "none", value |-> NoRunResult]
    ELSE [status |-> "ok",
          value |-> RunResult(Get(data.items, "run", EmptyDict),
                              Get(data.items, "findings_raw", <<>>))]

\* RescueAction.to_dict and RescuePlan.to_dict
action_to_dict(action) ==
    [action_id |-> action.action_id, finding_id |-> action.finding_id,
     rule_id |-> action.rule_id, action_type |-> action.action_type,
     safety_level |-> action.safety_level, file_path |-> action.file_path,
     line_start |-> action.line_start, line_end |-> action.line_end,
     replacement_code |-> "None"]

to_dict(p) ==
    [schema_version |-> p.schema_version, source_run_id |-> p.source_run_id,
     source_signal_logic_version |-> p.source_signal_logic_version,
     actions |-> [k \in 1..Len(p.actions) |-> action_to_dict(p.actions[k])],
     summary |-> p.summary]

\* What one invocation of cmd_plan does: its return value (1 with raised
\* where an exception leaves the command), what load_run_result did, what
\* the command prints on stdout and what it writes to the --output path;
\* run_result and plan are its locals.
Outcome(rc, raised, loaded, stdout, written) ==
    [rc |-> rc, raised |-> raised, loaded |-> loaded, stdout |-> stdout,
     written |-> written]

Rejected(rc, raised, loaded) ==
    [out |-> Outcome(rc, raised, loaded, <<>>, <<>>), run_result |-> NoRunResult,
     plan |-> NoPlan]

\* cmd_plan, lines 115-125
Emitted(a, rr, p) ==
    [out |-> IF a.output = "-" THEN Outcome(0, FALSE, "ok", <<to_dict(p)>>, <<>>)
             ELSE Outcome(0, FALSE, "ok", <<>>, <<to_dict(p)>>),
     run_result |-> rr, plan |-> p]

\* cmd_plan, lines 109-115
Planned(a, loaded) ==
    IF loaded.status = "raised" THEN Rejected(1, TRUE, "raised")
    ELSE IF loaded.status = "none" THEN Rejected(2, FALSE, "none")
    ELSE Emitted(a, loaded.value, create_rescue_plan(loaded.value))

\* cmd_plan, lines 95-106: read_text of a directory or of bytes that are not
\* UTF-8 raises an exception that is not JSONDecodeError.
cmd_plan(a, inp) ==
    IF a.input # "-" /\ ~inp.exists THEN Rejected(2, FALSE, "not called")
    ELSE IF inp.kind \in {"directory", "undecodable"} THEN Rejected(1, TRUE, "not called")
    ELSE IF inp.kind = "invalid_json" THEN Rejected(2, FALSE, "not called")
    ELSE Planned(a, load_run_result(inp.data))

\* The documents the command is given.  A finding is the full finding of one
\* of the rule ids, or that of the first with one key left out, with a
\* location or metadata that lacks keys, or a finding without a rule id.
DocRuleIds ==
    {"GST_MUTABLE_DEFAULT_001", "SEC_HARDCODED_SECRET_001", "SEC_EVAL_001",
     "X_CUSTOM_001", ""}

FullFinding(rule_id) ==
    [finding_id |-> "f", type |-> "dead_code", severity |-> "high",
     location |-> [path |-> <<"a">>, line_start |-> 2, line_end |-> 3],
     confidence |-> 500, metadata |-> [rule_id |-> rule_id]]

Omit(d, key) == [k \in DOMAIN d \ {key} |-> d[k]]

With(d, key, value) == [k \in DOMAIN d \cup {key} |-> IF k = key THEN value ELSE d[k]]

FindingDocs ==
    {FullFinding(r) : r \in DocRuleIds}
    \cup {Omit(FullFinding("GST_MUTABLE_DEFAULT_001"), key) :
            key \in DOMAIN FullFinding("GST_MUTABLE_DEFAULT_001")}
    \cup {With(FullFinding("GST_MUTABLE_DEFAULT_001"), "location", loc) :
            loc \in {EmptyDict, [path |-> <<"b">>], [line_start |-> 1]}}
    \cup {With(With(FullFinding(""), "metadata", EmptyDict), "type", t) :
            t \in FindingTypes}
    \cup {EmptyDict}

FindingLists == UNION {[1..n -> FindingDocs] : n \in 0..MaxFindings}

SchemaVersions ==
    {JsonStr("run_result_v1"), JsonStr("run_result_v2"), JsonStr("RUN_RESULT_V1"),
     JsonStr("run_result_v1 "), JsonNum(1), JsonNull}

RunData == [run_id |-> "r1", signal_logic_version |-> "v1"]

Documents ==
    {[kind |-> k] : k \in {"list", "str", "NoneType"}}
    \cup {Dict(EmptyDict), Dict([findings_raw |-> <<FullFinding("SEC_EVAL_001")>>])}
    \cup {Dict([schema_version |-> v, findings_raw |-> <<FullFinding("SEC_EVAL_001")>>]) :
            v \in SchemaVersions \ {JsonStr("run_result_v1")}}
    \cup {Dict([schema_version |-> v]) : v \in SchemaVersions}
    \cup {Dict([schema_version |-> JsonStr("run_result_v1"), run |-> r]) :
            r \in {EmptyDict, RunData}}
    \cup {Dict([schema_version |-> JsonStr("run_result_v1"), findings_raw |-> fr]) :
            fr \in FindingLists}
    \cup {Dict([schema_version |-> JsonStr("run_result_v1"), run |-> RunData,
                findings_raw |-> fr]) : fr \in FindingLists}

Inputs ==
    {NoInput}
    \cup {[exists |-> TRUE, kind |-> k, data |-> [kind |-> "none"]] :
            k \in {"directory", "undecodable", "invalid_json"}}
    \cup {[exists |-> TRUE, kind |-> "json", data |-> d] : d \in Documents}

\* The command is run on the same input this many times.
Invocations == 2

InitCmdPlan ==
    /\ mode = "cmd_plan"
    /\ pc = "start"
    /\ plan_args \in [input : {"-", "run_result.json"}, output : {"-", "plan.json"}]
    /\ input \in Inputs
    /\ plan_args.input = "-" => input.exists /\ input.kind # "directory"
    /\ outcomes = <<>>
    /\ IdlePlanner
    /\ IdleNumbering
    /\ IdleFixer
    /\ IdleDriver

Ran(o) ==
    /\ outcomes' = Append(outcomes, o.out)
    /\ run_result' = o.run_result
    /\ rescue_plan' = o.plan

CmdPlan ==
    /\ mode = "cmd_plan" /\ Len(outcomes) < Invocations
    /\ Ran(cmd_plan(plan_args, input))
    /\ pc' = "done"
    /\ UNCHANGED <<mode, fixerVars, driverVars, plan_args, input, numbered>>

NextCmdPlan == CmdPlan

SpecCmdPlan == InitCmdPlan /\ [][NextCmdPlan]_vars

----------------------------------------------------------------------------
(* The fixer run on its own: locate, rewrite, locate again *)

InitFixer ==
    /\ mode = "fixer"
    /\ pc = "start"
    /\ source \in {t \in FixerTexts \cup PosOnlyTexts \cup ShapedTexts : ast_parse(t).ok}
    /\ line_start \in 1..Len(source)
    /\ params = <<>>
    /\ fixed = NoText
    /\ again = <<>>
    /\ IdleApply
    /\ IdleDriver
    /\ IdlePlanner
    /\ IdlePlanCommand
    /\ IdleNumbering

Locate ==
    /\ mode = "fixer" /\ pc = "start"
    /\ IF find_mutable_default_params_raises(source, line_start)
       THEN params' = params /\ pc' = "raised"
       ELSE /\ params' = find_mutable_default_params(source, line_start)
            /\ pc' = "located"
    /\ UNCHANGED <<mode, source, line_start, fixed, again, fix_action, fix_result,
                   driverVars, planVars>>

Rewrite ==
    /\ mode = "fixer" /\ pc = "located"
    /\ fixed' = apply_mutable_default_fix(source, line_start, params)
    /\ pc' = "rewritten"
    /\ UNCHANGED <<mode, source, line_start, params, again, fix_action, fix_result,
                   driverVars, planVars>>

LocateAgain ==
    /\ mode = "fixer" /\ pc = "rewritten" /\ fixed.ok
    /\ IF find_mutable_default_params_raises(fixed.text, line_start)
       THEN again' = again /\ pc' = "raised"
       ELSE /\ again' = find_mutable_default_params(fixed.text, line_start)
            /\ pc' = "relocated"
    /\ UNCHANGED <<mode, source, line_start, params, fixed, fix_action, fix_result,
                   driverVars, planVars>>

NextFixer == Locate \/ Rewrite \/ LocateAgain

SpecFixer == InitFixer /\ [][NextFixer]_vars

----------------------------------------------------------------------------
(* MutableDefaultFixer.apply run on one action and one text *)

\* The rationale generate_fix writes: it names the located parameters.
FixerRationale(ps) == [by |-> "fixer", names |-> [k \in 1..Len(ps) |-> ps[k].name]]

\* The rationale the planner gave the action (_generate_rationale).
PlannerRationale == [by |-> "planner"]

\* generate_fix: (fixed, rationale), or (None, None).
NoFix == [ok |-> FALSE, fixed |-> NoText, rationale |-> [by |-> "none"]]

Generated(ps, rewritten) ==
    IF ps = <<>> \/ ~rewritten.ok THEN NoFix
    ELSE [ok |-> TRUE, fixed |-> rewritten, rationale |-> FixerRationale(ps)]

GenerateFrom(source_code, line, ps) ==
    Generated(ps, apply_mutable_default_fix(source_code, line, ps))

generate_fix(action, source_code) ==
    GenerateFrom(source_code, action.line_start,
                 find_mutable_default_params(source_code, action.line_start))

FixResult(status, action, original_content, modified_content) ==
    [status |-> status, action |-> action,
     original_content |-> original_content, modified_content |-> modified_content]

\* apply after can_fix: the result for what generate_fix returned.
Applied(action, source_code, g) ==
    IF ~g.ok
    THEN FixResult("failed", action, NoText, NoText)
    ELSE FixResult("success",
                   [action EXCEPT !.replacement_code = g.fixed, !.rationale = g.rationale],
                   SomeText(source_code), g.fixed)

\* MutableDefaultFixer.apply: the FixResult, whose action field is the
\* action object after the call.
apply(action, source_code) ==
    IF ~can_fix(action)
    THEN FixResult("skipped", action, NoText, NoText)
    ELSE Applied(action, source_code, generate_fix(action, source_code))

\* The call raises: the IndexError of find_mutable_default_params passes
\* through generate_fix and apply.
apply_raises(action, source_code) ==
    can_fix(action) /\ find_mutable_default_params_raises(source_code, action.line_start)

ApplyRules == {GST_MUTABLE_DEFAULT_001, "DC_UNREACHABLE_001"}

InitApply ==
    /\ mode = "apply"
    /\ pc = "start"
    /\ source \in {t \in FixerTexts \cup PosOnlyTexts \cup ShapedTexts : ast_parse(t).ok}
    /\ line_start = 0 /\ params = <<>> /\ fixed = NoText /\ again = <<>>
    /\ \E rule \in ApplyRules, line \in 1..Len(source) :
           fix_action = [rule_id |-> rule, line_start |-> line,
                         replacement_code |-> NoText, rationale |-> PlannerRationale]
    /\ fix_result = NoResult
    /\ IdleDriver
    /\ IdlePlanner
    /\ IdlePlanCommand
    /\ IdleNumbering

Apply ==
    /\ mode = "apply" /\ pc = "start"
    /\ IF apply_raises(fix_action, source)
       THEN /\ pc' = "raised"
            /\ UNCHANGED <<fix_action, fix_result>>
       ELSE /\ pc' = "returned"
            /\ fix_result' = apply(fix_action, source)
            /\ fix_action' = apply(fix_action, source).action
    /\ UNCHANGED <<mode, source, line_start, params, fixed, again, driverVars, planVars>>

NextApply == Apply

SpecApply == InitApply /\ [][NextApply]_vars

----------------------------------------------------------------------------
(* The properties *)

\* C1 (SpecFixer): round trip.  Whenever find_mutable_default_params returns
\* a non-empty list P at a declaration line L and the text rewritten with P
\* parses, find_mutable_default_params on the rewritten text at L returns
\* the empty list.
C1_RoundTripEmpty ==
    (mode = "fixer" /\ pc = "relocated" /\ params # <<>> /\ ast_parse(fixed.text).ok)
        => again = <<>>

\* The name declared at a line of a text, "" when the line is not the first
\* line of a declaration.
DeclaredAt(text, line) ==
    IF line \in 1..Len(text) /\ Len(text[line].toks) >= 2 /\ text[line].toks[1] = "def"
    THEN text[line].toks[2] ELSE ""

\* C2 (Spec): the actions of a file are processed in descending order of
\* their recorded line_start, and after each processed action every action
\* not yet processed whose line_start is the first line of a declaration in
\* the text read from the file is the first line of the same declaration in
\* the current in-memory text.
C2_PendingActionsStayValid ==
    (mode = "fix" /\ pc = "action") =>
        /\ \A i, j \in 1..Len(file.actions) :
               i < j => plan[file.actions[i].action_id].line_start
                            >= plan[file.actions[j].action_id].line_start
        /\ \A k \in file.idx..Len(file.actions) :
               DeclaredAt(file.source, file.actions[k].line_start) # ""
                   => DeclaredAt(file.modified, file.actions[k].line_start)
                          = DeclaredAt(file.source, file.actions[k].line_start)

\* The actions the driver keeps, and whether each of them that is grouped
\* on an existing file has been handled.
KeptActions == Grouped(SafeActions(RuleFiltered(plan, args.rule)))

EveryKeptActionHandled ==
    \A k \in 1..Len(KeptActions) :
        fs0[full_path(KeptActions[k].file_path)].exists
            => \E e \in 1..Len(log) : log[e].action_id = KeptActions[k].action_id

Failed(e) == e.what \in {"not_located", "no_rewrite"}

\* C3 (Spec): every action of apply_fixes_to_file whose declaration is not
\* located at its line nor in the retry window, or whose rewrite returns
\* none, has an error in the errors list of the file's result, changes no
\* text, and the remaining actions of the file are still processed.
C3_FailureIsRecorded ==
    /\ (mode = "fix" /\ pc = "action") =>
           /\ Len(file.errors) =
                  Cardinality({e \in 1..Len(log) : log[e].path = file.path /\ Failed(log[e])})
           /\ \A e \in 1..Len(log) : Failed(log[e]) => ~log[e].changed
    /\ (mode = "fix" /\ pc = "done" /\ exit_code # 2) => EveryKeptActionHandled

\* C4 (Spec): fix returns 2 exactly when the plan file or the root directory
\* does not exist, before any target file is read or written; otherwise it
\* returns 1 when at least one action failed (missing target file,
\* declaration not located, no rewrite) and 0 when none did, with and
\* without --apply.
C4_ExitCodes ==
    (mode = "fix" /\ pc = "done") =>
        /\ exit_code = 2 <=> (~args.plan_exists \/ ~args.root_exists)
        /\ exit_code = 2 => io = <<>> /\ fs = fs0
        /\ exit_code # 2 =>
               exit_code = IF \E e \in 1..Len(log) : log[e].what = "missing" \/ Failed(log[e])
                           THEN 1 ELSE 0

\* C5 (Spec): a target file that does not exist adds one error for every
\* action grouped on it, and the run goes on with the next file, whose
\* actions are processed.
C5_OneErrorPerAction ==
    (mode = "fix" /\ pc = "done" /\ exit_code # 2) =>
        /\ totals.errors >=
               Cardinality({k \in 1..Len(KeptActions) :
                               ~fs0[full_path(KeptActions[k].file_path)].exists})
        /\ EveryKeptActionHandled

FindingOf(action) == run_result.findings[action.finding_id]

Actions == rescue_plan.actions

\* The ranks of the severities as the documentation gives them.
Rank(severity) ==
    CASE severity = "critical" -> 4
      [] severity = "high"     -> 3
      [] severity = "medium"   -> 2
      [] severity = "low"      -> 1
      [] OTHER                 -> 0

Known(severity) == severity \in {"critical", "high", "medium", "low", "info"}

\* C8 (SpecPlan): in the plan no action of a finding of lower severity rank
\* precedes an action of a finding of higher severity rank, whatever the
\* order of the findings in the input.
C8_SeverityOrder ==
    (mode = "plan" /\ pc = "planned") =>
        \A i, j \in 1..Len(Actions) :
            (/\ Known(FindingOf(Actions[i]).severity)
             /\ Known(FindingOf(Actions[j]).severity)
             /\ i < j)
                => Rank(FindingOf(Actions[i]).severity) >= Rank(FindingOf(Actions[j]).severity)

\* C8: a plan of two findings given in increasing severity.
C8_Witness ==
    /\ mode = "plan" /\ pc = "planned"
    /\ Len(run_result.findings) = 2
    /\ Known(run_result.findings[1].severity) /\ Known(run_result.findings[2].severity)
    /\ Rank(run_result.findings[1].severity) < Rank(run_result.findings[2].severity)
    /\ Actions[1].finding_id = 2

\* confidence x 100 rounded to an integer, for k thousandths.
Rounded(k) == (k + 5) \div 10

\* C9 (SpecPlan): among findings of equal severity, a finding whose
\* confidence x 100 rounded to an integer is greater has its action first.
C9_RoundedConfidenceOrder ==
    (mode = "plan" /\ pc = "planned") =>
        \A i, j \in 1..Len(Actions) :
            (/\ FindingOf(Actions[i]).severity = FindingOf(Actions[j]).severity
             /\ Rounded(FindingOf(Actions[i]).confidence)
                    > Rounded(FindingOf(Actions[j]).confidence))
                => i < j

SameRankAndConfidence(f, g) ==
    /\ SeverityPriority(f.severity) = SeverityPriority(g.severity)
    /\ IntConfidence(f.confidence) = IntConfidence(g.confidence)

\* C10 (SpecPlan): the plan holds every finding once, and two findings equal
\* on severity rank and on the integer confidence key are ordered by path
\* ascending (lexicographic), then by line_start ascending, then as in the
\* input.
C10_TotalAndStable ==
    (mode = "plan" /\ pc = "planned") =>
        /\ Len(Actions) = Len(run_result.findings)
        /\ \A i, j \in 1..Len(Actions) : i # j => Actions[i].finding_id # Actions[j].finding_id
        /\ \A i, j \in 1..Len(Actions) :
               (i < j /\ SameRankAndConfidence(FindingOf(Actions[i]), FindingOf(Actions[j])))
                   => \/ StrLess(Actions[i].file_path, Actions[j].file_path)
                      \/ /\ Actions[i].file_path = Actions[j].file_path
                         /\ Actions[i].line_start < Actions[j].line_start
                      \/ /\ Actions[i].file_path = Actions[j].file_path
                         /\ Actions[i].line_start = Actions[j].line_start
                         /\ Actions[i].finding_id < Actions[j].finding_id

\* C10: a plan of two findings equal on rank, integer confidence key and
\* path, given with the greater line first.
C10_Witness ==
    /\ mode = "plan" /\ pc = "planned"
    /\ Len(run_result.findings) = 2
    /\ SameRankAndConfidence(run_result.findings[1], run_result.findings[2])
    /\ run_result.findings[1].location.path = run_result.findings[2].location.path
    /\ run_result.findings[1].location.line_start > run_result.findings[2].location.line_start
    /\ Actions[1].finding_id = 2

----------------------------------------------------------------------------
(* The plan command's properties *)

\* The plan command has emitted a plan.
PlanEmitted == mode = "cmd_plan" /\ pc = "done" /\ outcomes[Len(outcomes)].rc = 0

\* The findings_raw array of the input document.
FindingsRaw == Get(input.data.items, "findings_raw", <<>>)

Rearrangements(n) == {p \in [1..n -> 1..n] : \A i, j \in 1..n : p[i] = p[j] => i = j}

\* The action is the one made from the finding document.
MadeFrom(action, doc) ==
    /\ action.finding_id = Get(doc, "finding_id", "")
    /\ action.file_path = Get(Get(doc, "location", EmptyDict), "path", <<>>)
    /\ action.line_start = Get(Get(doc, "location", EmptyDict), "line_start", 0)
    /\ LET given == Get(Get(doc, "metadata", EmptyDict), "rule_id", "")
       IN  IF given # "" THEN action.rule_id = given
           ELSE action.rule_id = Upper(Get(doc, "type", "")) \o "_UNKNOWN"

\* C11: a plan has exactly one action per input finding (the actions are a
\* rearrangement of the findings, none dropped and none duplicated), and an
\* action whose resolved rule_id is not in the taxonomy table has
\* action_type flag and safety_level manual.
C11_OneActionPerFinding ==
    PlanEmitted =>
        /\ Len(rescue_plan.actions) = Len(FindingsRaw)
        /\ \E p \in Rearrangements(Len(FindingsRaw)) :
               \A k \in 1..Len(FindingsRaw) :
                   MadeFrom(rescue_plan.actions[k], FindingsRaw[p[k]])
        /\ \A k \in 1..Len(rescue_plan.actions) :
               rescue_plan.actions[k].rule_id \notin DOMAIN RULE_ACTION_MAP
                   => /\ rescue_plan.actions[k].action_type = "flag"
                      /\ rescue_plan.actions[k].safety_level = "manual"

\* A plan of two actions, the first of a rule in the table, the second of a
\* rule id that is not.
C11_Witness ==
    /\ PlanEmitted
    /\ Len(rescue_plan.actions) = 2
    /\ rescue_plan.actions[1].rule_id = "GST_MUTABLE_DEFAULT_001"
    /\ rescue_plan.actions[1].safety_level = "safe"
    /\ rescue_plan.actions[2].rule_id = "X_CUSTOM_001"
    /\ rescue_plan.actions[2].action_type = "flag"

\* The number a sequence of decimal digits stands for.
RECURSIVE DigitsValue(_)
DigitsValue(digits) ==
    IF digits = <<>> THEN 0
    ELSE 10 * DigitsValue(SubSeq(digits, 1, Len(digits) - 1))
         + (CHOOSE d \in 0..9 : Digit[d + 1] = digits[Len(digits)])

\* C12: the action at 0-based position i of a plan has the action_id made of
\* the letter A and i as a zero-padded counter of fixed width (the width of
\* A0000), so that the ids of a plan are unique, of equal width, and
\* increase with the position.
C12_FixedWidthIds ==
    (mode = "numbering" /\ pc = "numbered") =>
        /\ Head(numbered.action.action_id) = "A"
        /\ DigitsValue(Tail(numbered.action.action_id)) = numbered.action_num
        /\ Len(numbered.action.action_id) = Len(ActionId(0))

\* The plan document the last invocation printed or wrote.
EmittedPlan ==
    IF outcomes[Len(outcomes)].stdout # <<>> THEN outcomes[Len(outcomes)].stdout[1]
    ELSE outcomes[Len(outcomes)].written[1]

\* The number of the emitted plan's actions of a safety level.
WithLevel(level) ==
    Cardinality({k \in 1..Len(EmittedPlan.actions) :
                    EmittedPlan.actions[k].safety_level = level})

\* C13: in every plan total_actions is the number of actions;
\* by_safety_level and by_action_type have a key for every taxonomy value and
\* each sums to total_actions; auto_fixable is the safe count plus the
\* semi_auto count and manual_review the manual count; with no findings the
\* actions are empty and total_actions, auto_fixable, manual_review are 0.
C13_SummaryCounts ==
    PlanEmitted =>
        /\ EmittedPlan.summary.total_actions = Len(EmittedPlan.actions)
        /\ DOMAIN EmittedPlan.summary.by_safety_level = {"safe", "semi_auto", "manual"}
        /\ DOMAIN EmittedPlan.summary.by_action_type
               = {"remove", "replace", "extract", "refactor", "flag"}
        /\ EmittedPlan.summary.by_safety_level["safe"]
               + EmittedPlan.summary.by_safety_level["semi_auto"]
               + EmittedPlan.summary.by_safety_level["manual"]
               = EmittedPlan.summary.total_actions
        /\ EmittedPlan.summary.by_action_type["remove"]
               + EmittedPlan.summary.by_action_type["replace"]
               + EmittedPlan.summary.by_action_type["extract"]
               + EmittedPlan.summary.by_action_type["refactor"]
               + EmittedPlan.summary.by_action_type["flag"]
               = EmittedPlan.summary.total_actions
        /\ EmittedPlan.summary.auto_fixable = WithLevel("safe") + WithLevel("semi_auto")
        /\ EmittedPlan.summary.manual_review = WithLevel("manual")
        /\ Len(FindingsRaw) = 0 =>
               /\ EmittedPlan.actions = <<>>
               /\ EmittedPlan.summary.total_actions = 0
               /\ EmittedPlan.summary.auto_fixable = 0
               /\ EmittedPlan.summary.manual_review = 0

\* A plan of a safe and a semi_auto action: two auto-fixable actions, and the
\* unused values manual and remove are counted with zero.
C13_Witness ==
    /\ PlanEmitted
    /\ EmittedPlan.summary.by_safety_level["safe"] = 1
    /\ EmittedPlan.summary.by_safety_level["semi_auto"] = 1
    /\ EmittedPlan.summary.by_safety_level["manual"] = 0
    /\ EmittedPlan.summary.by_action_type["remove"] = 0
    /\ EmittedPlan.summary.auto_fixable = 2

CarriesMarker ==
    /\ input.kind = "json"
    /\ input.data.kind = "dict"
    /\ "schema_version" \in DOMAIN input.data.items
    /\ input.data.items.schema_version = JsonStr("run_result_v1")

\* C15: load_run_result returns None, and does not raise, for every document
\* whose schema_version is missing or is anything but the string
\* run_result_v1, and returns a RunResult only when the marker matches.
C15_AbsentWithoutRaising ==
    (mode = "cmd_plan" /\ pc = "done" /\ input.kind = "json") =>
        /\ ~CarriesMarker => outcomes[Len(outcomes)].loaded = "none"
        /\ outcomes[Len(outcomes)].loaded = "ok" => CarriesMarker

\* The finding loaded from the k-th element of findings_raw has the
\* documented default for every field the element omits.
DefaultsFilled(k) ==
    /\ "severity" \notin DOMAIN FindingsRaw[k] => run_result.findings[k].severity = "info"
    /\ "confidence" \notin DOMAIN FindingsRaw[k] => run_result.findings[k].confidence = 0
    /\ \/ "location" \notin DOMAIN FindingsRaw[k]
       \/ "line_start" \notin DOMAIN FindingsRaw[k].location
       => run_result.findings[k].location.line_start = 0
    /\ \/ "location" \notin DOMAIN FindingsRaw[k]
       \/ "line_end" \notin DOMAIN FindingsRaw[k].location
       => run_result.findings[k].location.line_end = 0
    /\ "severity" \in DOMAIN FindingsRaw[k]
           => run_result.findings[k].severity = FindingsRaw[k].severity

\* C16: a document that carries the schema marker always parses, whatever
\* sub-fields it omits: without findings_raw the findings are empty, a
\* finding without severity has severity info, without line numbers has
\* line 0, without confidence has confidence 0; the load never fails or
\* returns None because of an omission.
C16_OmissionsGetDefaults ==
    (mode = "cmd_plan" /\ pc = "done" /\ CarriesMarker) =>
        /\ outcomes[Len(outcomes)].loaded = "ok"
        /\ "findings_raw" \notin DOMAIN input.data.items => run_result.findings = <<>>
        /\ Len(run_result.findings) = Len(FindingsRaw)
        /\ \A k \in 1..Len(FindingsRaw) : DefaultsFilled(k)

\* A document with the marker has been loaded whose first finding is the
\* empty object and whose second has a location without line numbers.
C16_Witness ==
    /\ mode = "cmd_plan" /\ pc = "done" /\ CarriesMarker
    /\ outcomes[Len(outcomes)].loaded = "ok"
    /\ Len(FindingsRaw) = 2
    /\ FindingsRaw[1] = EmptyDict
    /\ "location" \in DOMAIN FindingsRaw[2]
    /\ "line_start" \notin DOMAIN FindingsRaw[2].location
    /\ run_result.findings[1].severity = "info"

\* The input file is missing, is not valid JSON, or is a JSON document
\* without the schema marker.
InputRefused ==
    \/ plan_args.input # "-" /\ ~input.exists
    \/ input.exists /\ input.kind \in {"invalid_json", "undecodable"}
    \/ input.exists /\ input.kind = "json" /\ ~CarriesMarker

\* C17: the plan command returns 2 whenever the input file is missing, is
\* not valid JSON or is a JSON document without the run_result_v1 marker, and
\* then writes no plan to stdout or to the --output path; it returns 0 only
\* after it has emitted a complete plan.
C17_PlanExitCodes ==
    (mode = "cmd_plan" /\ pc = "done") =>
        /\ InputRefused =>
               /\ outcomes[Len(outcomes)].rc = 2
               /\ outcomes[Len(outcomes)].stdout = <<>>
               /\ outcomes[Len(outcomes)].written = <<>>
        /\ outcomes[Len(outcomes)].rc = 0 =>
               Len(outcomes[Len(outcomes)].stdout) + Len(outcomes[Len(outcomes)].written) = 1

----------------------------------------------------------------------------
(* The fix phase's properties *)

\* The file groups of the run: the paths of the kept actions, as the plan
\* spells them.
GroupPaths == {KeptActions[k].file_path : k \in 1..Len(KeptActions)}

\* The log's entries of one path lie together: the group was visited once.
VisitedOnce(path) ==
    /\ \E e \in 1..Len(log) : log[e].path = path
    /\ \A e1, e2, e3 \in 1..Len(log) :
           e1 < e2 /\ e2 < e3 /\ log[e1].path = path /\ log[e3].path = path
               => log[e2].path = path
    /\ Cardinality({e \in 1..Len(log) :
                       log[e].path = path /\ log[e].what \in {"missing", "raised"}}) <= 1

\* C18: once the plan file and the root directory have been found, no
\* failure in one file group (a missing file, a target that cannot be read
\* or is not a regular file, a declaration not located or not rewritten)
\* stops the fix phase: the run ends with its summary and exit code, and
\* every file group has been visited exactly once.
C18_FixPhaseCompletes ==
    (mode = "fix" /\ pc \in {"done", "aborted"} /\ args.plan_exists /\ args.root_exists) =>
        /\ pc = "done"
        /\ \A path \in GroupPaths : VisitedOnce(path)

\* C19: with --backup and --apply, every write of a target file comes after
\* a backup of that file, and the backup holds the content the file had
\* before the run modified it.
C19_BackupHoldsOriginal ==
    (mode = "fix" /\ args.backup /\ args.apply) =>
        \A k \in 1..Len(io) :
            io[k].op = "write" =>
                /\ \E j \in 1..(k - 1) : io[j].op = "backup" /\ io[j].path = io[k].path
                /\ bak[io[k].path] = fs0[io[k].path]

----------------------------------------------------------------------------
(* The locate step's attribution of defaults *)

\* The parameters that own the qualifying positional defaults of a
\* signature, in order: the defaults belong to the last parameters of the
\* positional-only parameters followed by the other positional parameters.
RECURSIVE Owners(_, _)
Owners(a, i) ==
    IF i >= Len(a.defaults) THEN <<>>
    ELSE LET positional == a.posonlyargs \o a.args
         IN  (IF Qualifies(a.defaults[i + 1])
              THEN <<positional[Len(positional) - Len(a.defaults) + i + 1]>>
              ELSE <<>>)
             \o Owners(a, i + 1)

\* The names of the entries of a result.
Names(ps) == [k \in 1..Len(ps) |-> ps[k].name]

\* The names a correct attribution gives for the declarations at a line.
RECURSIVE OwnersAt(_, _, _)
OwnersAt(defs, k, line) ==
    IF k > Len(defs) THEN <<>>
    ELSE (IF defs[k].lineno = line
          THEN Owners(defs[k].args, 0) \o Names(KeywordDefaults(defs[k].args, 0))
          ELSE <<>>)
         \o OwnersAt(defs, k + 1, line)

\* C20: on a text that parses, find_mutable_default_params does not fail,
\* and the name it returns for each qualifying positional default is the
\* parameter that owns the default, the defaults being right-aligned to the
\* whole positional parameter list, positional-only parameters included.
C20_DefaultsNameTheirOwner ==
    (mode = "fixer" /\ pc # "start" /\ ast_parse(source).ok) =>
        /\ ~find_mutable_default_params_raises(source, line_start)
        /\ Names(params) = OwnersAt(ast_parse(source).defs, 1, line_start)

----------------------------------------------------------------------------
(* The locate step's choice of defaults and their captured text *)

\* The locate step has returned a result for the text.
HasLocated == mode = "fixer" /\ pc \in {"located", "rewritten", "relocated"}

\* A default that qualifies: a list, dict or set display, or a call of list,
\* dict or set without arguments.
IsDisplay(default) == default.kind \in {"List", "Dict", "Set"}

QualifyingDefault(default) ==
    \/ IsDisplay(default)
    \/ /\ default.kind = "Call" /\ default.func \in {"list", "dict", "set"}
       /\ default.seg = Str(<<default.func, "(", ")">>)

\* The parameters of a signature with a qualifying default: the positional
\* ones, then the keyword-only ones.
RECURSIVE QualifyingPositional(_, _)
QualifyingPositional(a, i) ==
    IF i >= Len(a.defaults) THEN <<>>
    ELSE LET positional == a.posonlyargs \o a.args
         IN  (IF QualifyingDefault(a.defaults[i + 1])
              THEN <<positional[Len(positional) - Len(a.defaults) + i + 1]>>
              ELSE <<>>)
             \o QualifyingPositional(a, i + 1)

RECURSIVE QualifyingKeywordOnly(_, _)
QualifyingKeywordOnly(a, i) ==
    IF i >= Len(a.kw_defaults) THEN <<>>
    ELSE (IF QualifyingDefault(a.kw_defaults[i + 1]) THEN <<a.kwonlyargs[i + 1]>> ELSE <<>>)
         \o QualifyingKeywordOnly(a, i + 1)

RECURSIVE QualifyingAt(_, _, _)
QualifyingAt(defs, k, line) ==
    IF k > Len(defs) THEN <<>>
    ELSE (IF defs[k].lineno = line
          THEN QualifyingPositional(defs[k].args, 0) \o QualifyingKeywordOnly(defs[k].args, 0)
          ELSE <<>>)
         \o QualifyingAt(defs, k + 1, line)

\* C21: find_mutable_default_params returns a parameter exactly when the
\* declaration begins on the given line and the parameter's default is a
\* list, dict or set literal or a call of list, dict or set with no
\* arguments, for positional and for keyword-only parameters alike; a
\* default of None, a number or a constructor call with arguments is never
\* returned.
C21_ReturnedIffQualifying ==
    (HasLocated /\ ast_parse(source).ok) =>
        Names(params) = QualifyingAt(ast_parse(source).defs, 1, line_start)

\* The default nodes the locate step returns an entry for, in the order of
\* the entries.
ReturnedKeywordOnly(default) == IsDisplay(default)

RECURSIVE ReturnedNodes(_, _, _)
ReturnedNodes(defs, k, line) ==
    IF k > Len(defs) THEN <<>>
    ELSE (IF defs[k].lineno = line
          THEN SelectSeq(defs[k].args.defaults, Qualifies)
               \o SelectSeq(defs[k].args.kw_defaults, ReturnedKeywordOnly)
          ELSE <<>>)
         \o ReturnedNodes(defs, k + 1, line)

\* C22: for every qualifying literal default (a list, dict or set display,
\* empty or not) the text find_mutable_default_params returns is the exact
\* source text of that default.
C22_LiteralTextVerbatim ==
    (HasLocated /\ ast_parse(source).ok) =>
        LET nodes == ReturnedNodes(ast_parse(source).defs, 1, line_start)
        IN  /\ Len(nodes) = Len(params)
            /\ \A k \in 1..Len(nodes) :
                   IsDisplay(nodes[k]) => params[k].repr = nodes[k].seg

----------------------------------------------------------------------------
(* The rewrite step *)

\* apply_mutable_default_fix has been called on source, line_start, params.
HasRewritten == mode = "fixer" /\ pc \in {"rewritten", "relocated"}

\* The signature span starting at the line cannot be closed: no line from
\* it on holds the colon at parenthesis depth 0 after a parenthesis.
SpanNotClosed == SigEndScan(source, line_start, 0, FALSE) = 0

\* C23: apply_mutable_default_fix returns none, and no modified text, when
\* the parameter list is empty, the line number is outside the file, or the
\* signature span starting at the line cannot be closed.
C23_NoneWhenNotApplicable ==
    (HasRewritten
     /\ (params = <<>> \/ line_start \notin 1..Len(source) \/ SpanNotClosed))
        => fixed = NoText

----------------------------------------------------------------------------
(* MutableDefaultFixer.apply *)

\* The call of apply: from the action and text handed over to its end.
ApplyCalled == mode = "apply" /\ pc = "start" /\ pc' # "start"

\* replacement_code and rationale of the action are as before the call.
ActionUntouched ==
    /\ fix_action'.replacement_code = fix_action.replacement_code
    /\ fix_action'.rationale = fix_action.rationale

\* C24: MutableDefaultFixer.apply returns a result for every action and
\* text: status skipped when the action's rule is not supported, failed
\* when no qualifying default is found at the action's line, and success
\* with modified_content set otherwise; the action's replacement_code and
\* rationale are left as they were for skipped and failed.
C24_ApplyStatusAndFrame ==
    [][ApplyCalled =>
          /\ pc' = "returned"
          /\ IF ~can_fix(fix_action)
             THEN fix_result'.status = "skipped" /\ ActionUntouched
             ELSE IF find_mutable_default_params(source, fix_action.line_start) = <<>>
             THEN fix_result'.status = "failed" /\ ActionUntouched
             ELSE /\ fix_result'.status = "success"
                  /\ fix_result'.modified_content.ok
                  /\ fix_action'.replacement_code = fix_result'.modified_content]_vars

----------------------------------------------------------------------------
(* The substitution of the defaults in the signature *)

\* The tokens of lines i.. of a text, one after the other.
RECURSIVE Flat(_, _)
Flat(text, i) == IF i > Len(text) THEN <<>> ELSE text[i].toks \o Flat(text, i + 1)

\* One parameter of the signature (the tokens between two commas of the
\* parameter list): its default replaced by None when the parameter is one
\* of names and has a default.
OwnDefaultReplaced(piece, names) ==
    LET E == TopLevel(piece, "=") IN
    IF piece = <<>> \/ piece[1] \notin names \/ E = {} THEN piece
    ELSE SubSeq(piece, 1, CHOOSE q \in E : \A r \in E : q <= r) \o <<"None">>

\* The parameter list (the tokens between the parentheses of the
\* declaration) with the defaults of the parameters in names replaced.
RECURSIVE OwnDefaultsReplaced(_, _)
OwnDefaultsReplaced(list, names) ==
    LET C == TopLevel(list, ",") IN
    IF C = {} THEN OwnDefaultReplaced(list, names)
    ELSE LET c == CHOOSE x \in C : \A y \in C : x <= y
         IN  OwnDefaultReplaced(SubSeq(list, 1, c - 1), names) \o <<",">>
             \o OwnDefaultsReplaced(SubSeq(list, c + 1, Len(list)), names)

\* The tokens of a text from its declaration line on, with nothing changed
\* but the defaults of the parameters in names.
OnlyOwnDefaults(toks, names) ==
    LET close == MatchClose(toks, 3)
    IN  SubSeq(toks, 1, 3)
        \o OwnDefaultsReplaced(SubSeq(toks, 4, close - 1), names)
        \o SubSeq(toks, close, Len(toks))

\* C25: the replacement by None in apply_mutable_default_fix changes, for
\* each located parameter, that parameter's own default in the signature
\* (two parameters with the same literal are both replaced) and no other
\* text: not another parameter's default, an annotation or a keyword
\* argument of a nested call, and nothing outside the signature.
C25_OnlyOwnDefaultReplaced ==
    (HasRewritten /\ fixed.ok) =>
        /\ SubSeq(Substituted(source, line_start, SigEnd(source, line_start), params),
                  1, line_start - 1)
           = SubSeq(source, 1, line_start - 1)
        /\ Flat(Substituted(source, line_start, SigEnd(source, line_start), params),
                line_start)
           = OnlyOwnDefaults(Flat(source, line_start), {params[k].name : k \in 1..Len(params)})

----------------------------------------------------------------------------
(* The indentation of the guard lines *)

\* The first line from i on that is neither blank nor a comment, 0 if none.
RECURSIVE FirstCodeLine(_, _)
FirstCodeLine(text, i) ==
    IF i > Len(text) THEN 0
    ELSE IF text[i].toks # <<>> /\ ~IsComment(text[i].toks[1]) THEN i
    ELSE FirstCodeLine(text, i + 1)

\* The indentation of the body of the declaration at a line: that of the
\* first line after the signature that is neither blank nor a comment, when
\* that line lies inside the declaration; the declaration's indentation
\* plus four when the declaration has no body line.
OwnBodyIndent(text, line) ==
    LET first == FirstCodeLine(text, SigEndScan(text, line, 0, FALSE) + 1)
    IN  IF first # 0 /\ text[first].ind > text[line].ind
        THEN text[first].ind
        ELSE text[line].ind + 4

\* C26: for every signature the span scan accepts (on one line or several,
\* with or without text after the colon) the guard lines are given the
\* indentation of the first non-blank, non-comment line of the body of the
\* rewritten function, or the declaration's indentation plus four when it
\* has no body line.
C26_GuardIndentIsBodyIndent ==
    (HasRewritten /\ fixed.ok /\ ~SpanNotClosed) =>
        get_function_body_indent(source, line_start) = OwnBodyIndent(source, line_start)

----------------------------------------------------------------------------
(* The place of the guard lines *)

\* The last line of the docstring that opens at line i: line i itself when
\* the string closes on it, else the first later line that holds the
\* closing quotes (0: the string is not closed).
DocstringEnd(text, i) ==
    IF QuoteCount(text[i].toks) >= 2 THEN i ELSE ClosingQuoteScan(text, i + 1)

\* The line the guard lines belong after: the last line of the signature,
\* or the last line of the docstring when the body starts with one.
GuardsAfter(text, sig_end) ==
    IF sig_end + 1 <= Len(text) /\ text[sig_end + 1].toks # <<>>
       /\ text[sig_end + 1].toks[1] = TQ
    THEN DocstringEnd(text, sig_end + 1)
    ELSE sig_end

\* The lines at..(at + 2n - 1) of a text are the guard blocks of the
\* parameters ps, two lines each, in order.
GuardBlocksAt(text, at, ps) ==
    \A k \in 1..Len(ps) :
        /\ text[at + 2 * k - 2].toks = <<"if", ps[k].name, "is", "None", ":">>
        /\ SubSeq(text[at + 2 * k - 1].toks, 1, 2) = <<ps[k].name, "=">>

\* C27: apply_mutable_default_fix inserts one guard block of two lines for
\* each parameter, in the order of the parameters, as one contiguous block
\* immediately after the last line of the signature span, or immediately
\* after the closing line of the docstring when the body starts with a
\* docstring (on one line or several, of any length, the empty one
\* included); all other lines keep their order around the block.
C27_GuardBlockPlacement ==
    (HasRewritten /\ fixed.ok /\ ~SpanNotClosed) =>
        LET sig_end == SigEnd(source, line_start)
            lines   == Substituted(source, line_start, sig_end, params)
            after   == GuardsAfter(source, sig_end)
            n       == 2 * Len(params)
        IN  /\ Len(fixed.text) = Len(source) + n
            /\ SubSeq(fixed.text, 1, after) = SubSeq(lines, 1, after)
            /\ GuardBlocksAt(fixed.text, after + 1, params)
            /\ SubSeq(fixed.text, after + n + 1, Len(fixed.text))
               = SubSeq(lines, after + 1, Len(lines))

----------------------------------------------------------------------------
(* The driver's locate and retry *)

\* One turn of the loop of apply_fixes_to_file over the sorted actions.
ActionProcessed == mode = "fix" /\ pc = "action" /\ file'.idx = file.idx + 1

RetryWindow == -3..3

\* The text after the rewrite of the declaration at a line of a text (the
\* text itself when the rewrite returns none).
RewrittenAt(text, line) ==
    LET new_source ==
            apply_mutable_default_fix(text, line, find_mutable_default_params(text, line))
    IN  IF new_source.ok THEN new_source.text ELSE text

\* C28: for each action the driver first locates at the recorded line_start
\* in the current in-memory text, and the rewrite is applied there when
\* that finds something; only when it finds nothing are the offsets -3..+3
\* tried, and when one of them succeeds line_start is set to the line where
\* the declaration was found and the rewrite is applied at that line; when
\* every offset fails line_start and the text are left unchanged.
C28_LocateThenRetry ==
    [][ActionProcessed =>
          LET action == file.actions[file.idx]
              line   == action.line_start
              moved  == file'.actions[file.idx].line_start
          IN  IF find_mutable_default_params(file.modified, line) # <<>>
              THEN /\ moved = line
                   /\ file'.modified = RewrittenAt(file.modified, line)
              ELSE IF \E offset \in RetryWindow :
                          find_mutable_default_params(file.modified, line + offset) # <<>>
              THEN /\ moved - line \in RetryWindow
                   /\ find_mutable_default_params(file.modified, moved) # <<>>
                   /\ file'.modified = RewrittenAt(file.modified, moved)
              ELSE /\ moved = line
                   /\ file'.modified = file.modified]_vars

\* C28: an action has been applied at a line other than the one the plan
\* recorded for it: the retry found its declaration.
C28_Witness ==
    /\ mode = "fix"
    /\ \E e \in 1..Len(log) :
           /\ log[e].what = "applied"
           /\ \E k \in 1..Len(plan) :
                  plan[k].action_id = log[e].action_id /\ plan[k].line_start # log[e].line

----------------------------------------------------------------------------
(* What a rewrite leaves in place *)

\* The lines of text are lines of result, in the same order, from line
\* `from` on, apart from the tokens replaced in the signature lines
\* first..last.
RECURSIVE LinesKept(_, _, _, _, _, _)
LinesKept(text, i, result, from, first, last) ==
    IF i > Len(text) THEN TRUE
    ELSE LET same(j) == IF i >= first /\ i <= last
                        THEN result[j].ind = text[i].ind
                        ELSE result[j] = text[i]
             J == {j \in from..Len(result) : same(j)}
         IN  J # {} /\ LinesKept(text, i + 1, result,
                                  (CHOOSE j \in J : \A k \in J : j <= k) + 1, first, last)

\* C29: a rewrite only inserts lines at or below the rewritten declaration:
\* the lines above the declaration line are the same in the result, no line
\* of the input is deleted, and the result has exactly two more lines for
\* each parameter than the input.
C29_OnlyInsertsBelow ==
    (HasRewritten /\ fixed.ok) =>
        /\ SubSeq(fixed.text, 1, line_start - 1) = SubSeq(source, 1, line_start - 1)
        /\ LinesKept(source, 1, fixed.text, 1, line_start, SigEnd(source, line_start))
        /\ Len(fixed.text) = Len(source) + 2 * Len(params)

----------------------------------------------------------------------------
(* One rewrite for each declaration *)

\* The lines of a text where a declaration begins.
DeclarationLines(text) == {d \in 1..Len(text) : DeclaredAt(text, d) # ""}

\* The first lines of the guard blocks of a parameter inside the
\* declaration that begins at line d: the lines "if NAME is None:" between
\* d and the next declaration.
GuardBlocks(text, d, name) ==
    {j \in (d + 1)..Len(text) :
        /\ \A i \in (d + 1)..j : i \notin DeclarationLines(text)
        /\ \E at \in 1..Len(text[j].toks) :
               PrefixAt(text[j].toks, at, <<"if", name, "is", "None", ":">>)}

\* The declarations of a text that hold a guard block.
RewrittenDeclarations(text) ==
    {d \in DeclarationLines(text) : \E name \in {"a", "b"} : GuardBlocks(text, d, name) # {}}

\* C30: within one run of apply_fixes_to_file no declaration is rewritten
\* more than once, whatever actions resolve to it: each parameter has at
\* most one guard block, and the applied counter is at most the number of
\* declarations rewritten.
C30_RewrittenAtMostOnce ==
    (mode = "fix" /\ pc = "action") =>
        /\ \A d \in DeclarationLines(file.modified) : \A name \in {"a", "b"} :
               Cardinality(GuardBlocks(file.modified, d, name)) <= 1
        /\ file.applied <= Cardinality(RewrittenDeclarations(file.modified))

====
